---- MODULE Spec2Model ----
(***************************************************************************)
(* Content discovery / sampling / extraction / scoring pipeline of the     *)
(* web scanner: URLSampler, SitemapDiscovery, SchemaValidator,             *)
(* TechnicalSEO / OnPageSEO scoring, ArticleExtractor, ProductExtractor,   *)
(* RSSDiscovery and ContentScanner.                                        *)
(*                                                                         *)
(* A URL is the sequence of the path fragments that follow the base        *)
(* "https://example.com"; the URL string is their concatenation.  A regex  *)
(* search on the URL string is a search for a fragment in which the        *)
(* pattern occurs (FragmentHits); the fragments are chosen so that no      *)
(* pattern occurs across a fragment boundary.                              *)
(***************************************************************************)
EXTENDS Integers, Sequences, FiniteSets, TLC

VARIABLES
    \* ---- URLSampler ----
    max_per_type,      \* URLSampler.max_per_type
    sitemap_in,        \* sample(sitemap_urls=...)
    rss_in,            \* sample(rss_urls=...)
    homepage,          \* what a GET of base_url returns to _crawl_for_urls
    spc,               \* position inside sample()
    sidx,              \* loop index of the running for-loop of sample()
    seen_urls,         \* seen_urls of sample()
    crawled_urls,      \* crawled_urls of sample()
    crawl_fetches,     \* number of GETs issued by _crawl_for_urls
    result,            \* the SamplerResult
    c_url,             \* argument of the pending or last direct _classify_url call
    c_ret,             \* its return value ("none" before any call)
    classify_log,      \* per URL, the values direct _classify_url calls returned
    date_log,          \* per string, the values _is_valid_date_format returned
    \* ---- SitemapDiscovery ----
    max_urls,          \* SitemapDiscovery.max_urls
    max_sitemaps,      \* SitemapDiscovery.max_sitemaps
    robots_txt,        \* what a GET of /robots.txt returns
    site_docs,         \* per sitemap URL, what a GET of it returns
    dpc,               \* position inside discover()
    sitemap_queue,     \* sitemap_queue of discover()
    processed_sitemaps,\* processed_sitemaps of discover()
    fetched,           \* the sitemap URLs _fetch_sitemap was called with, in order
    sm_result,         \* the SitemapResult
    \* ---- SchemaValidator ----
    schemas_in,        \* what _extract_schemas returns for the page
    vpc,               \* position inside validate()
    vidx,              \* index of the for-loop over schemas
    v_result,          \* the SchemaValidationResult
    \* ---- TechnicalSEO.analyze ----
    tpc,               \* position inside analyze()
    t_current,         \* current_response of the redirect loop
    t_result,          \* the TechnicalSEOResult
    \* ---- OnPageSEO.analyze ----
    opc,               \* position inside analyze()
    o_result,          \* the OnPageSEOResult
    \* ---- _calculate_score called on given lists ----
    score_pc, score_issues, score_warnings, score_extra, score_before, score_after,
    \* ---- ArticleExtractor.extract_single ----
    EXTRUCT_AVAILABLE, \* whether the import of extruct succeeded
    a_response,        \* what http_client.get(url) answers
    a_page,            \* the page behind a 200 response
    a_pc,              \* position of the call
    a_ret,             \* "None" or "article"
    a_article,         \* the ArticleData returned
    \* ---- ProductExtractor.extract_single ----
    p_response,        \* what http_client.get(url) answers
    p_page,            \* the page behind a 200 response
    p_pc,              \* position of the call
    p_ret,             \* "None" or "product"
    p_product,         \* the ProductData returned
    \* ---- extract_from_urls (ArticleExtractor / ProductExtractor) ----
    b_kind,            \* "article" or "product": whose extract_from_urls runs
    b_urls,            \* the argument urls, each with what the site answers
    b_max,             \* max_articles / max_products
    b_pc,              \* position inside extract_from_urls
    b_i,               \* index of the for-loop
    b_fetches,         \* per input position, the GETs issued for it
    b_platform,        \* the local platform_detected of the product extractor
    b_result,          \* the ArticleExtractionResult / ProductExtractionResult
    \* ---- ContentScanner ----
    k_entry,           \* the entry point called: scan, quick_scan, scan_*_only
    k_home,            \* what the GET of the homepage answers
    k_max_articles,    \* ContentScanner.max_articles
    k_max_products,    \* ContentScanner.max_products
    k_pc,              \* position inside the entry point
    k_calls,           \* the calls made to the HTTP client and the sub-scanners, in order
    k_sitemap_result,  \* sitemap_result
    k_rss_result,      \* rss_result
    k_sampled,         \* sampled
    k_results,         \* results
    \* ---- RSSDiscovery ----
    FEEDPARSER_AVAILABLE, \* whether the import of feedparser succeeded
    r_max_items,       \* RSSDiscovery.max_items
    r_html,            \* the html_content argument of discover()
    r_home,            \* what a GET of base_url answers when discover() fetches it
    r_feeds,           \* per candidate feed URL, what a GET of it answers
    r_pc,              \* position inside discover()
    r_queue,           \* feed_urls_to_check
    r_idx,             \* index of the loop over feed_urls_to_check
    r_fetched,         \* the URLs _fetch_and_parse_feed was called with, in order
    r_home_fetches,    \* number of GETs of base_url issued by discover()
    r_result           \* the FeedResult

samplerVars == <<max_per_type, sitemap_in, rss_in, homepage, spc, sidx,
                 seen_urls, crawled_urls, crawl_fetches, result>>
logVars == <<c_url, c_ret, classify_log, date_log>>

sitemapVars == <<max_urls, max_sitemaps, robots_txt, site_docs, dpc,
                 sitemap_queue, processed_sitemaps, fetched, sm_result>>

schemaVars == <<schemas_in, vpc, vidx, v_result>>

seoVars == <<tpc, t_current, t_result, opc, o_result>>

scoreVars ==
    <<score_pc, score_issues, score_warnings, score_extra, score_before, score_after>>

articleVars == <<EXTRUCT_AVAILABLE, a_response, a_page, a_pc, a_ret, a_article>>

productVars == <<p_response, p_page, p_pc, p_ret, p_product>>

\* the components added after the article extractor
batchVars == <<b_kind, b_urls, b_max, b_pc, b_i, b_fetches, b_platform, b_result>>

scanVars == <<k_entry, k_home, k_max_articles, k_max_products, k_pc, k_calls,
              k_sitemap_result, k_rss_result, k_sampled, k_results>>

rssVars == <<FEEDPARSER_AVAILABLE, r_max_items, r_html, r_home, r_feeds, r_pc, r_queue,
             r_idx, r_fetched, r_home_fetches, r_result>>

laterVars == <<productVars, batchVars, scanVars, rssVars>>

vars ==
    <<samplerVars, logVars, sitemapVars, schemaVars, seoVars, scoreVars, articleVars,
      laterVars>>

\* what the operations of one component leave alone
nonSampler ==
    <<sitemapVars, schemaVars, seoVars, scoreVars, articleVars, laterVars>>
nonSitemap ==
    <<samplerVars, logVars, schemaVars, seoVars, scoreVars, articleVars, laterVars>>
nonSchema ==
    <<samplerVars, logVars, sitemapVars, seoVars, scoreVars, articleVars, laterVars>>
nonSeo ==
    <<samplerVars, logVars, sitemapVars, schemaVars, scoreVars, articleVars, laterVars>>
nonScore ==
    <<samplerVars, logVars, sitemapVars, schemaVars, seoVars, articleVars, laterVars>>
nonArticle ==
    <<samplerVars, logVars, sitemapVars, schemaVars, seoVars, scoreVars, laterVars>>
earlierVars ==
    <<samplerVars, logVars, sitemapVars, schemaVars, seoVars, scoreVars, articleVars>>
nonProduct == <<earlierVars, batchVars, scanVars, rssVars>>
nonBatch == <<earlierVars, productVars, scanVars, rssVars>>
nonScan == <<earlierVars, productVars, batchVars, rssVars>>
nonRss == <<earlierVars, productVars, batchVars, scanVars>>

----------------------------------------------------------------------------
(* Generic helpers *)

RECURSIVE SeqsUpTo(_, _)
SeqsUpTo(S, n) ==
    IF n = 0 THEN {<<>>}
    ELSE LET shorter == SeqsUpTo(S, n - 1)
         IN  shorter \cup {Append(s, x) : s \in {t \in shorter : Len(t) = n - 1}, x \in S}

Range(s) == {s[i] : i \in 1..Len(s)}

Take(s, n) == IF n >= Len(s) THEN s ELSE SubSeq(s, 1, n)

Min2(a, b) == IF a < b THEN a ELSE b
Max2(a, b) == IF a > b THEN a ELSE b

----------------------------------------------------------------------------
(* URLSampler: pattern tables *)

ARTICLE_PATTERNS ==
    << "/blog/", "/news/", "/article/", "/post/", "/\\d{4}/\\d{2}/",
       "/\\d{4}/\\d{2}/\\d{2}/", "-news", "-article", "/p/" >>

PRODUCT_PATTERNS ==
    << "/product/", "/products/", "/shop/", "/store/", "/item/", "/p/",
       "/pd/", "/buy/", "/goods/", "-p-\\d+", "/catalog/" >>

CATEGORY_PATTERNS ==
    << "/category/", "/categories/", "/cat/", "/c/", "/collection/",
       "/collections/", "/tag/", "/tags/", "/topic/", "/archive/" >>

PAGE_PATTERNS ==
    << "/about", "/contact", "/faq", "/help", "/terms", "/privacy",
       "/policy", "/page/" >>

ExtensionPattern == "\\.(jpg|jpeg|png|gif|svg|css|js|pdf|zip|woff|woff2)$"

SKIP_PATTERNS ==
    << "/cdn-cgi/", "/wp-content/", "/wp-includes/", "/wp-admin/", "/admin/",
       "/login", "/logout", "/register", "/cart", "/checkout", "/account",
       ExtensionPattern, "/feed/", "/rss", "/sitemap", "#", "\\?" >>

\* The URL fragments of the model.
Fragments ==
    { "/blog/", "/NEWS/", "/2024/01/", "/p/", "/shop/", "widget-p-123",
      "/category/", "/c/", "/about", "/page/", "/wp-admin/", "/cart",
      "?ref=1", "logo.png", "my-post" }

\* The patterns (compiled with re.I) that occur in a fragment.
FragmentHits(f) ==
    CASE f = "/blog/"       -> {"/blog/"}
      [] f = "/NEWS/"       -> {"/news/"}
      [] f = "/2024/01/"    -> {"/\\d{4}/\\d{2}/"}
      [] f = "/p/"          -> {"/p/"}
      [] f = "/shop/"       -> {"/shop/"}
      [] f = "widget-p-123" -> {"-p-\\d+"}
      [] f = "/category/"   -> {"/category/"}
      [] f = "/c/"          -> {"/c/"}
      [] f = "/about"       -> {"/about"}
      [] f = "/page/"       -> {"/page/"}
      [] f = "/wp-admin/"   -> {"/wp-admin/"}
      [] f = "/cart"        -> {"/cart"}
      [] f = "?ref=1"       -> {"\\?"}
      [] f = "logo.png"     -> {ExtensionPattern}
      [] OTHER              -> {}

\* pattern.search(url): the pattern occurs in some fragment; the pattern that
\* ends in $ only at the end of the string.
PatternSearch(p, url) ==
    \E i \in 1..Len(url) :
        /\ p \in FragmentHits(url[i])
        /\ (p = ExtensionPattern => i = Len(url))

AnyPatternMatches(patterns, url) ==
    \E j \in 1..Len(patterns) : PatternSearch(patterns[j], url)

----------------------------------------------------------------------------
(* URLSampler._classify_url *)

\* A plausible slip: the product/article tables tried before the skip table.
classify_url_skip_last(url) ==
    IF AnyPatternMatches(PRODUCT_PATTERNS, url) THEN "product"
    ELSE IF AnyPatternMatches(ARTICLE_PATTERNS, url) THEN "article"
    ELSE IF AnyPatternMatches(SKIP_PATTERNS, url) THEN "other"
    ELSE IF AnyPatternMatches(CATEGORY_PATTERNS, url) THEN "category"
    ELSE IF AnyPatternMatches(PAGE_PATTERNS, url) THEN "page"
    ELSE "other"

\* A plausible slip: the classification consults the seen-set of the running
\* sample() and the log of earlier calls.
classify_url_stateful(url) ==
    IF url \in seen_urls THEN "other"
    ELSE IF AnyPatternMatches(SKIP_PATTERNS, url) THEN "other"
    ELSE IF AnyPatternMatches(PRODUCT_PATTERNS, url) THEN "product"
    ELSE IF AnyPatternMatches(ARTICLE_PATTERNS, url) THEN "article"
    ELSE IF AnyPatternMatches(CATEGORY_PATTERNS, url) THEN "category"
    ELSE IF AnyPatternMatches(PAGE_PATTERNS, url) THEN "page"
    ELSE "other"

classify_url(url) ==
    IF AnyPatternMatches(SKIP_PATTERNS, url) THEN "other"
    ELSE IF AnyPatternMatches(PRODUCT_PATTERNS, url) THEN "product"
    ELSE IF AnyPatternMatches(ARTICLE_PATTERNS, url) THEN "article"
    ELSE IF AnyPatternMatches(CATEGORY_PATTERNS, url) THEN "category"
    ELSE IF AnyPatternMatches(PAGE_PATTERNS, url) THEN "page"
    ELSE "other"

----------------------------------------------------------------------------
(* URLSampler: SampledURL, SamplerResult, _classify_and_add *)

\* SampledURL.priority default 0.5, in tenths
DefaultPriority == 5

SampledURL(url, url_type, source) ==
    [url |-> url, url_type |-> url_type, depth |-> 0, source |-> source,
     priority |-> DefaultPriority]

EmptySamplerResult ==
    [articles |-> <<>>, products |-> <<>>, categories |-> <<>>,
     pages |-> <<>>, all_urls |-> <<>>]

\* the append of a SampledURL to all_urls and to the list of its type
AddSampled(res, sampled) ==
    LET withAll == [res EXCEPT !.all_urls = Append(@, sampled)]
    IN  CASE sampled.url_type = "other"    -> res
          [] sampled.url_type = "article"  -> [withAll EXCEPT !.articles = Append(@, sampled)]
          [] sampled.url_type = "product"  -> [withAll EXCEPT !.products = Append(@, sampled)]
          [] sampled.url_type = "category" -> [withAll EXCEPT !.categories = Append(@, sampled)]
          [] sampled.url_type = "page"     -> [withAll EXCEPT !.pages = Append(@, sampled)]
          [] OTHER                         -> withAll

\* A plausible slip: the patterns are consulted first and force_type only
\* when none of them matches.
classify_and_add_patterns_first(url, res, seen, source, force_type) ==
    IF url \in seen THEN [result |-> res, seen |-> seen]
    ELSE
      LET url_type == IF classify_url(url) # "other" \/ force_type = "none"
                      THEN classify_url(url) ELSE force_type
      IN  [seen |-> seen \cup {url},
           result |-> AddSampled(res, SampledURL(url, url_type, source))]

\* A plausible slip: the seen-set is filled but not consulted.
classify_and_add_unseen(url, res, seen, source, force_type) ==
    LET url_type == IF force_type # "none" THEN force_type ELSE classify_url(url)
    IN  [seen |-> seen \cup {url},
         result |-> AddSampled(res, SampledURL(url, url_type, source))]

\* A plausible slip: a forced type overrides the seen-set, so a feed URL is
\* added again as an article.
classify_and_add_forced_again(url, res, seen, source, force_type) ==
    IF url \in seen /\ force_type = "none" THEN [result |-> res, seen |-> seen]
    ELSE
      LET url_type == IF force_type # "none" THEN force_type ELSE classify_url(url)
      IN  [seen |-> seen \cup {url},
           result |-> AddSampled(res, SampledURL(url, url_type, source))]

\* _classify_and_add(url, result, seen, source, force_type): the new
\* (result, seen).  force_type "none" is None.
classify_and_add(url, res, seen, source, force_type) ==
    IF url \in seen THEN [result |-> res, seen |-> seen]
    ELSE
      LET url_type == IF force_type # "none" THEN force_type ELSE classify_url(url)
      IN  [seen |-> seen \cup {url},
           result |-> AddSampled(res, SampledURL(url, url_type, source))]

----------------------------------------------------------------------------
(* URLSampler._crawl_for_urls *)

\* sample(max_crawl=50)
MaxCrawl == 50

BaseDomain == "example.com"

\* str.rstrip('/') on the last fragment of a path
RStripSlash(f) ==
    CASE f = "/blog/"     -> "/blog"
      [] f = "/NEWS/"     -> "/NEWS"
      [] f = "/2024/01/"  -> "/2024/01"
      [] f = "/p/"        -> "/p"
      [] f = "/shop/"     -> "/shop"
      [] f = "/category/" -> "/category"
      [] f = "/c/"        -> "/c"
      [] f = "/page/"     -> "/page"
      [] f = "/wp-admin/" -> "/wp-admin"
      [] OTHER            -> f

IsQueryFragment(f) == f = "?ref=1"

\* urlparse(full_url).path: what precedes the query string
RECURSIVE PathOf(_)
PathOf(url) ==
    IF url = <<>> \/ IsQueryFragment(Head(url)) THEN <<>>
    ELSE <<Head(url)>> \o PathOf(Tail(url))

\* f"{scheme}://{netloc}{path}".rstrip('/')
NormalizeCrawled(url) ==
    LET path == PathOf(url)
    IN  IF path = <<>> THEN <<>>
        ELSE [path EXCEPT ![Len(path)] = RStripSlash(@)]

\* the for-loop over soup.find_all('a', href=True)
RECURSIVE CrawlLinks(_, _, _, _)
CrawlLinks(links, discovered, limit, seen) ==
    IF links = <<>> \/ Len(discovered) >= limit THEN discovered
    ELSE
      LET link == Head(links)
          normalized == NormalizeCrawled(link.frags)
          next ==
            IF link.href_kind # "http" THEN discovered
            ELSE IF link.netloc # BaseDomain THEN discovered
            ELSE IF normalized \notin seen /\ normalized \notin Range(discovered)
                 THEN Append(discovered, normalized)
                 ELSE discovered
      IN  CrawlLinks(Tail(links), next, limit, seen)

\* _crawl_for_urls(base_url, limit, seen); page.status 0 is "no response"
crawl_for_urls(page, limit, seen) ==
    IF page.status # 200 THEN <<>>
    ELSE CrawlLinks(page.links, <<>>, limit, seen)

----------------------------------------------------------------------------
(* URLSampler.sample *)

\* A plausible slip: > for >=, which puts an entry before its equals.
RECURSIVE InsertByPriorityBeforeEqual(_, _)
InsertByPriorityBeforeEqual(sorted, x) ==
    IF sorted = <<>> THEN <<x>>
    ELSE IF Head(sorted).priority > x.priority
         THEN <<Head(sorted)>> \o InsertByPriorityBeforeEqual(Tail(sorted), x)
         ELSE <<x>> \o sorted

\* list.sort(key=priority, reverse=True): stable, descending
RECURSIVE InsertByPriority(_, _)
InsertByPriority(sorted, x) ==
    IF sorted = <<>> THEN <<x>>
    ELSE IF Head(sorted).priority >= x.priority
         THEN <<Head(sorted)>> \o InsertByPriority(Tail(sorted), x)
         ELSE <<x>> \o sorted

RECURSIVE SortByPriority(_)
SortByPriority(s) ==
    IF s = <<>> THEN <<>>
    ELSE InsertByPriority(SortByPriority(SubSeq(s, 1, Len(s) - 1)), s[Len(s)])

\* A plausible slip: the trim keeps one entry too many.
TrimToMaxOffByOne(s, n) == Take(s, n + 1)

\* result.articles[:self.max_per_type]
TrimToMax(s, n) == Take(s, n)

\* A plausible slip: the sitemap loop capped at max_per_type entries.
SitemapCapOpenPerType(all_urls, limit) == Len(all_urls) < limit

\* not (len(result.all_urls) >= self.max_per_type * 5)
SitemapCapOpen(all_urls, limit) == Len(all_urls) < limit * 5

\* SamplerResult.to_dict()['total_urls']
to_dict_total_urls(res) == Len(res.all_urls)

\* for url in sitemap_urls: one iteration, or the end of the loop
SampleSitemapStep ==
    /\ spc = "sitemap"
    /\ IF sidx <= Len(sitemap_in) /\ SitemapCapOpen(result.all_urls, max_per_type)
       THEN LET r == classify_and_add(sitemap_in[sidx], result, seen_urls, "sitemap", "none")
            IN  /\ result' = r.result
                /\ seen_urls' = r.seen
                /\ sidx' = sidx + 1
                /\ spc' = spc
       ELSE /\ spc' = "rss"
            /\ sidx' = 1
            /\ UNCHANGED <<result, seen_urls>>
    /\ UNCHANGED <<max_per_type, sitemap_in, rss_in, homepage, crawled_urls,
                   crawl_fetches, logVars, nonSampler>>

\* for url in rss_urls: one iteration, or the end of the loop
SampleRssStep ==
    /\ spc = "rss"
    /\ IF sidx <= Len(rss_in) /\ Len(result.articles) < max_per_type
       THEN LET r == classify_and_add(rss_in[sidx], result, seen_urls, "rss", "article")
            IN  /\ result' = r.result
                /\ seen_urls' = r.seen
                /\ sidx' = sidx + 1
                /\ spc' = spc
       ELSE /\ spc' = "crawl_check"
            /\ sidx' = 1
            /\ UNCHANGED <<result, seen_urls>>
    /\ UNCHANGED <<max_per_type, sitemap_in, rss_in, homepage, crawled_urls,
                   crawl_fetches, logVars, nonSampler>>

\* A plausible slip: and for or.
QuotaUnmetBoth(articles, products, limit) ==
    Len(articles) < limit /\ Len(products) < limit

\* len(result.articles) < self.max_per_type or len(result.products) < self.max_per_type
QuotaUnmet(articles, products, limit) ==
    Len(articles) < limit \/ Len(products) < limit

\* if len(articles) < max or len(products) < max: crawled_urls = _crawl_for_urls(...)
SampleCrawlCheck ==
    /\ spc = "crawl_check"
    /\ IF QuotaUnmet(result.articles, result.products, max_per_type)
       THEN /\ crawled_urls' = crawl_for_urls(homepage, MaxCrawl, seen_urls)
            /\ crawl_fetches' = crawl_fetches + 1
            /\ spc' = "crawl"
       ELSE /\ spc' = "trim"
            /\ UNCHANGED <<crawled_urls, crawl_fetches>>
    /\ sidx' = 1
    /\ UNCHANGED <<max_per_type, sitemap_in, rss_in, homepage, seen_urls,
                   result, logVars, nonSampler>>

\* for url in crawled_urls: one iteration, or the end of the loop
SampleCrawlStep ==
    /\ spc = "crawl"
    /\ IF sidx <= Len(crawled_urls)
       THEN LET r == classify_and_add(crawled_urls[sidx], result, seen_urls, "crawl", "none")
            IN  /\ result' = r.result
                /\ seen_urls' = r.seen
                /\ sidx' = sidx + 1
                /\ spc' = spc
       ELSE /\ spc' = "trim"
            /\ sidx' = 1
            /\ UNCHANGED <<result, seen_urls>>
    /\ UNCHANGED <<max_per_type, sitemap_in, rss_in, homepage, crawled_urls,
                   crawl_fetches, logVars, nonSampler>>

\* sort by priority, trim to max, return
SampleReturn ==
    /\ spc = "trim"
    /\ result' =
         [result EXCEPT
            !.articles   = TrimToMax(SortByPriority(@), max_per_type),
            !.products   = TrimToMax(SortByPriority(@), max_per_type),
            !.categories = TrimToMax(SortByPriority(@), max_per_type),
            !.pages      = TrimToMax(SortByPriority(@), max_per_type)]
    /\ spc' = "done"
    /\ UNCHANGED <<max_per_type, sitemap_in, rss_in, homepage, sidx, seen_urls,
                   crawled_urls, crawl_fetches, logVars, nonSampler>>

----------------------------------------------------------------------------
(* SchemaValidator._is_valid_date_format *)
(* A date string is the sequence of its characters' classes: "d" a digit,  *)
(* "n" a newline, "x" any other character, the rest themselves.            *)

D2 == <<"d", "d">>
IsoDate == <<"d", "d", "d", "d", "-">> \o D2 \o <<"-">> \o D2
IsoHHMM == <<"T">> \o D2 \o <<":">> \o D2
IsoSeconds == <<":">> \o D2
IsoOffsets == { <<"+">> \o D2 \o <<":">> \o D2, <<"-">> \o D2 \o <<":">> \o D2, <<"Z">> }

\* the strings of \d{4}-\d{2}-\d{2}(T\d{2}:\d{2}(:\d{2})?(([+-]\d{2}:\d{2})|Z)?)?
IsoShapes ==
    {IsoDate} \cup
    { IsoDate \o IsoHHMM \o sec \o off :
        sec \in {<<>>, IsoSeconds}, off \in {<<>>} \cup IsoOffsets }

\* A plausible slip: the pattern without its anchors (re.search of the bare pattern).
is_valid_date_format_unanchored(date_str) ==
    \E i \in 1..Len(date_str) : \E j \in i..Len(date_str) :
        SubSeq(date_str, i, j) \in IsoShapes

\* re.match(r'^...$', s): $ also matches before a trailing newline
is_valid_date_format(date_str) ==
    \/ date_str \in IsoShapes
    \/ /\ Len(date_str) > 0
       /\ date_str[Len(date_str)] = "n"
       /\ SubSeq(date_str, 1, Len(date_str) - 1) \in IsoShapes

DateIso == IsoDate
DateIsoTz == IsoDate \o IsoHHMM \o IsoSeconds \o <<"+">> \o D2 \o <<":">> \o D2
DateSlashes == D2 \o <<"x">> \o D2 \o <<"x", "d", "d", "d", "d">>
DateIsoJunk == IsoDate \o <<"x">>

CallDates == {DateIso, DateIsoTz, DateSlashes, DateIsoJunk}

----------------------------------------------------------------------------
(* SitemapDiscovery *)
(* A sitemap URL is urljoin(base, path), written as its path.  A GET of a  *)
(* sitemap URL returns a document [kind, sitemaps, urls]: kind is          *)
(* "no_response", "status_404", "bad_xml", "other_root", "sitemapindex"    *)
(* or "urlset"; sitemaps are the <sitemap><loc> texts and urls the <url>   *)
(* entries that carry a <loc>.                                             *)

COMMON_PATHS ==
    << "/sitemap.xml", "/sitemap_index.xml", "/sitemap-index.xml",
       "/sitemaps.xml", "/sitemap1.xml", "/sitemap-posts.xml",
       "/sitemap-pages.xml", "/post-sitemap.xml", "/page-sitemap.xml",
       "/wp-sitemap.xml" >>

\* SitemapDiscovery.__init__ defaults
DefaultMaxUrls == 1000
DefaultMaxSitemaps == 20

EmptySitemapResult ==
    [found |-> FALSE, sitemap_urls |-> <<>>, urls |-> <<>>, total_urls |-> 0,
     warnings |-> <<>>]

\* _get_sitemaps_from_robots: the non-empty values of the Sitemap: lines
RECURSIVE RobotsSitemapLines(_)
RobotsSitemapLines(lines) ==
    IF lines = <<>> THEN <<>>
    ELSE LET line == Head(lines)
             rest == RobotsSitemapLines(Tail(lines))
         IN  IF line.key = "sitemap" /\ line.value # "" THEN <<line.value>> \o rest
             ELSE rest

get_sitemaps_from_robots(robots) ==
    IF robots.status = 200 THEN RobotsSitemapLines(robots.lines) ELSE <<>>

\* the for-loop over COMMON_PATHS: append what is not yet in the queue
RECURSIVE AddCommonPaths(_, _)
AddCommonPaths(queue, paths) ==
    IF paths = <<>> THEN queue
    ELSE AddCommonPaths(
           IF Head(paths) \in Range(queue) THEN queue ELSE Append(queue, Head(paths)),
           Tail(paths))

\* _fetch_sitemap(url): "None" or the parsed data
NoSitemapData == [is_none |-> TRUE, is_index |-> FALSE, sitemaps |-> <<>>, urls |-> <<>>]

\* A plausible slip: a response that is not a sitemap is parsed all the same.
fetch_sitemap_lenient(doc) ==
    IF doc.kind \in {"sitemapindex", "status_404"} /\ doc.sitemaps # <<>>
    THEN [is_none |-> FALSE, is_index |-> TRUE, sitemaps |-> doc.sitemaps, urls |-> <<>>]
    ELSE IF doc.kind \in {"urlset", "other_root"}
    THEN [is_none |-> FALSE, is_index |-> FALSE, sitemaps |-> <<>>, urls |-> doc.urls]
    ELSE [is_none |-> TRUE, is_index |-> FALSE, sitemaps |-> <<>>, urls |-> <<>>]

fetch_sitemap(doc) ==
    CASE doc.kind = "sitemapindex" ->
           [is_none |-> FALSE, is_index |-> TRUE, sitemaps |-> doc.sitemaps, urls |-> <<>>]
      [] doc.kind = "urlset" ->
           [is_none |-> FALSE, is_index |-> FALSE, sitemaps |-> <<>>, urls |-> doc.urls]
      [] OTHER -> NoSitemapData

\* A plausible slip: children are put at the front of the queue.
EnqueueChildrenAtFront(queue, children, processed) ==
    SelectSeq(children, LAMBDA c : c \notin processed) \o queue

\* A plausible slip: an index enqueues only its first child.
EnqueueFirstChildOnly(queue, children, processed) ==
    IF children = <<>> \/ Head(children) \in processed THEN queue
    ELSE Append(queue, Head(children))

\* for child_url in sitemaps: if child_url not in processed: queue.append(child_url)
RECURSIVE EnqueueChildren(_, _, _)
EnqueueChildren(queue, children, processed) ==
    IF children = <<>> THEN queue
    ELSE EnqueueChildren(
           IF Head(children) \in processed THEN queue ELSE Append(queue, Head(children)),
           Tail(children), processed)

\* A plausible slip: the URL cap tested with <= instead of <.
CollectUrlsOffByOne(urls, new, cap) ==
    Take(urls \o new, cap + 1)

\* for url_data in urls: if len(result.urls) < max_urls: result.urls.append(url_data)
RECURSIVE CollectUrls(_, _, _)
CollectUrls(urls, new, cap) ==
    IF new = <<>> THEN urls
    ELSE CollectUrls(IF Len(urls) < cap THEN Append(urls, Head(new)) ELSE urls,
                     Tail(new), cap)

\* A plausible slip: the loop runs while the queue is non-empty, without the cap.
sitemap_loop_continues_uncapped(queue, processed, cap) == queue # <<>>

\* while sitemap_queue and len(processed_sitemaps) < self.max_sitemaps
sitemap_loop_continues(queue, processed, cap) ==
    queue # <<>> /\ Cardinality(processed) < cap

\* discover(): robots.txt hints, then the conventional paths
DiscoverStart ==
    /\ dpc = "start"
    /\ sitemap_queue' = AddCommonPaths(get_sitemaps_from_robots(robots_txt), COMMON_PATHS)
    /\ dpc' = "loop"
    /\ UNCHANGED <<max_urls, max_sitemaps, robots_txt, site_docs,
                   processed_sitemaps, fetched, sm_result, nonSitemap>>

\* one iteration of the while-loop of discover()
DiscoverStep ==
    /\ dpc = "loop"
    /\ sitemap_loop_continues(sitemap_queue, processed_sitemaps, max_sitemaps)
    /\ LET sitemap_url == Head(sitemap_queue)
           queue == Tail(sitemap_queue)
       IN  IF sitemap_url \in processed_sitemaps
           THEN /\ sitemap_queue' = queue
                /\ UNCHANGED <<processed_sitemaps, fetched, sm_result>>
           ELSE LET processed == processed_sitemaps \cup {sitemap_url}
                    data == fetch_sitemap(site_docs[sitemap_url])
                    found == [sm_result EXCEPT !.found = TRUE,
                                               !.sitemap_urls = Append(@, sitemap_url)]
                IN  /\ processed_sitemaps' = processed
                    /\ fetched' = Append(fetched, sitemap_url)
                    /\ IF data.is_none
                       THEN /\ sitemap_queue' = queue
                            /\ sm_result' = sm_result
                       ELSE IF data.is_index
                       THEN /\ sitemap_queue' = EnqueueChildren(queue, data.sitemaps, processed)
                            /\ sm_result' = found
                       ELSE /\ sitemap_queue' = queue
                            /\ sm_result' = [found EXCEPT !.urls = CollectUrls(@, data.urls, max_urls)]
    /\ UNCHANGED <<max_urls, max_sitemaps, robots_txt, site_docs, dpc, nonSitemap>>

\* the end of the while-loop: total_urls, the warning, return
DiscoverReturn ==
    /\ dpc = "loop"
    /\ ~sitemap_loop_continues(sitemap_queue, processed_sitemaps, max_sitemaps)
    /\ sm_result' =
         [sm_result EXCEPT
            !.total_urls = Len(sm_result.urls),
            !.warnings = IF sm_result.found THEN @
                         ELSE Append(@, "No sitemap found at common locations")]
    /\ dpc' = "done"
    /\ UNCHANGED <<max_urls, max_sitemaps, robots_txt, site_docs, sitemap_queue,
                   processed_sitemaps, fetched, nonSitemap>>

----------------------------------------------------------------------------
(* SitemapDiscovery: the inputs of the model *)

MaxUrlsPerSet == 2
MaxChildren == 2
SmallMaxSitemaps == 11
SmallMaxUrls == 3

ChildA == "/child-a.xml"
ChildB == "/child-b.xml"
IndexPath == "/sitemap_index.xml"

SitemapUrls == Range(COMMON_PATHS) \cup {ChildA, ChildB}

Urlset(path, n) ==
    [kind |-> "urlset", sitemaps |-> <<>>,
     urls |-> [i \in 1..n |-> [loc |-> <<path, i>>]]]
IndexDoc(children) == [kind |-> "sitemapindex", sitemaps |-> children, urls |-> <<>>]
FailDoc(kind) == [kind |-> kind, sitemaps |-> <<>>, urls |-> <<>>]

SitemapXmlDocs == {FailDoc("status_404"), Urlset("/sitemap.xml", 1)}
IndexDocs ==
    {FailDoc("no_response"), FailDoc("bad_xml")}
    \cup {IndexDoc(c) : c \in SeqsUpTo({ChildA, ChildB, IndexPath}, MaxChildren)}
ChildADocs ==
    {FailDoc("other_root"), IndexDoc(<<ChildB>>), IndexDoc(<<IndexPath>>)}
    \cup {Urlset(ChildA, n) : n \in 0..MaxUrlsPerSet}
ChildBDocs == {FailDoc("status_404"), Urlset(ChildB, MaxUrlsPerSet)}

Sites ==
    { [p \in SitemapUrls |->
         CASE p = "/sitemap.xml" -> a
           [] p = IndexPath      -> b
           [] p = ChildA         -> c
           [] p = ChildB         -> d
           [] OTHER              -> FailDoc("status_404")] :
      a \in SitemapXmlDocs, b \in IndexDocs, c \in ChildADocs, d \in ChildBDocs }

RobotsResponses ==
    { [status |-> 404, lines |-> <<[key |-> "sitemap", value |-> ChildB]>>],
      [status |-> 200, lines |-> <<[key |-> "user-agent", value |-> "*"],
                                   [key |-> "sitemap", value |-> ""],
                                   [key |-> "sitemap", value |-> IndexPath]>>],
      [status |-> 200, lines |-> <<[key |-> "sitemap", value |-> ChildB],
                                   [key |-> "sitemap", value |-> ChildA]>>] }

SitemapStart ==
    /\ dpc = "start"
    /\ sitemap_queue = <<>>
    /\ processed_sitemaps = {}
    /\ fetched = <<>>
    /\ sm_result = EmptySitemapResult

SitemapInit ==
    /\ max_urls \in {SmallMaxUrls, DefaultMaxUrls}
    /\ max_sitemaps \in {SmallMaxSitemaps, DefaultMaxSitemaps}
    /\ robots_txt \in RobotsResponses
    /\ site_docs \in Sites
    /\ SitemapStart

SitemapIdle ==
    /\ max_urls = DefaultMaxUrls
    /\ max_sitemaps = DefaultMaxSitemaps
    /\ robots_txt = [status |-> 404, lines |-> <<>>]
    /\ site_docs = [p \in SitemapUrls |-> FailDoc("status_404")]
    /\ SitemapStart

----------------------------------------------------------------------------
(* SchemaValidator *)
(* A JSON-LD block is a record: type is its @type, present the set of its  *)
(* top-level keys whose value is truthy, and one field for each nested     *)
(* value the validators look into.                                         *)

ARTICLE_REQUIRED == <<"headline", "datePublished", "author">>
ARTICLE_RECOMMENDED == <<"mainEntityOfPage", "dateModified", "image", "publisher">>
PRODUCT_REQUIRED == <<"name">>
PRODUCT_OFFER_REQUIRED == <<"price", "priceCurrency", "availability">>
PRODUCT_RECOMMENDED == <<"description", "image", "sku", "brand">>
ORGANIZATION_REQUIRED == <<"name">>
ORGANIZATION_RECOMMENDED == <<"url", "logo", "contactPoint", "sameAs">>
WEBSITE_REQUIRED == <<"name", "url">>
VALIDATOR_ARTICLE_TYPES ==
    {"Article", "NewsArticle", "BlogPosting", "TechArticle", "ScholarlyArticle"}

EmptyValidationResult ==
    [schemas_found |-> <<>>, total_schemas |-> 0, errors |-> <<>>,
     warnings |-> <<>>, info |-> <<>>, coverage_score |-> 0,
     article_schema_valid |-> FALSE, product_schema_valid |-> FALSE,
     breadcrumb_present |-> FALSE, organization_present |-> FALSE,
     website_present |-> FALSE]

SchemaIssue(schema_type, field) == [schema_type |-> schema_type, field |-> field]

\* one SchemaIssue per field of the list that is absent or falsy
MissingIssues(schema_type, prefix, fields, present) ==
    LET missing == SelectSeq(fields, LAMBDA f : f \notin present)
    IN  [i \in 1..Len(missing) |-> SchemaIssue(schema_type, <<prefix, missing[i]>>)]

validate_article(schema, res) ==
    LET t == schema.type
        req == MissingIssues(t, "", ARTICLE_REQUIRED, schema.present)
        rec == MissingIssues(t, "", ARTICLE_RECOMMENDED, schema.present)
        hasAuthor == "author" \in schema.present
        authorWarn ==
            IF hasAuthor /\ schema.author_kind = "str"
            THEN <<SchemaIssue(t, <<"", "author">>)>> ELSE <<>>
        authorErr ==
            IF hasAuthor /\ schema.author_kind = "dict_unnamed"
            THEN <<SchemaIssue(t, <<"author", "name">>)>> ELSE <<>>
        pubDict == "publisher" \in schema.present /\ schema.publisher_kind # "str"
        pubErr ==
            IF pubDict /\ schema.publisher_kind \in {"dict_no_name", "dict_bare"}
            THEN <<SchemaIssue(t, <<"publisher", "name">>)>> ELSE <<>>
        pubWarn ==
            IF pubDict /\ schema.publisher_kind \in {"dict_no_logo", "dict_bare"}
            THEN <<SchemaIssue(t, <<"publisher", "logo">>)>> ELSE <<>>
        dateWarn ==
            IF "datePublished" \in schema.present /\ ~is_valid_date_format(schema.date)
            THEN <<SchemaIssue(t, <<"", "datePublished">>)>> ELSE <<>>
    IN  [res EXCEPT
           !.errors = @ \o req \o authorErr \o pubErr,
           !.warnings = @ \o rec \o authorWarn \o pubWarn \o dateWarn,
           !.article_schema_valid = (req = <<>>)]

validate_product(schema, res) ==
    LET req == MissingIssues("Product", "", PRODUCT_REQUIRED, schema.present)
        hasOffers == "offers" \in schema.present
        offersErr ==
            IF ~hasOffers THEN <<SchemaIssue("Product", <<"", "offers">>)>>
            ELSE MissingIssues("Product", "offers", PRODUCT_OFFER_REQUIRED, schema.offers)
        availWarn ==
            IF hasOffers /\ "availability" \in schema.offers /\ ~schema.availability_schema_org
            THEN <<SchemaIssue("Product", <<"offers", "availability">>)>> ELSE <<>>
        rec == MissingIssues("Product", "", PRODUCT_RECOMMENDED, schema.present)
        ratingWarn ==
            IF schema.rating = "dict_no_value"
            THEN <<SchemaIssue("Product", <<"aggregateRating", "ratingValue">>)>> ELSE <<>>
    IN  [res EXCEPT
           !.errors = @ \o req \o offersErr,
           !.warnings = @ \o availWarn \o rec \o ratingWarn,
           !.product_schema_valid = (req = <<>> /\ offersErr = <<>>)]

RECURSIVE BreadcrumbItemIssues(_, _, _)
BreadcrumbItemIssues(items, i, kind) ==
    IF i > Len(items) THEN <<>>
    ELSE LET item == items[i]
             here ==
               IF ~item.is_dict THEN <<>>
               ELSE IF kind = "error"
               THEN IF item.position THEN <<>>
                    ELSE <<SchemaIssue("BreadcrumbList", <<"itemListElement.position", i - 1>>)>>
               ELSE IF item.name \/ item.item_name THEN <<>>
                    ELSE <<SchemaIssue("BreadcrumbList", <<"itemListElement.name", i - 1>>)>>
         IN  here \o BreadcrumbItemIssues(items, i + 1, kind)

validate_breadcrumb(schema, res) ==
    IF schema.items = <<>>
    THEN [res EXCEPT !.breadcrumb_present = TRUE,
                     !.errors = Append(@, SchemaIssue("BreadcrumbList", <<"", "itemListElement">>))]
    ELSE [res EXCEPT !.breadcrumb_present = TRUE,
                     !.errors = @ \o BreadcrumbItemIssues(schema.items, 1, "error"),
                     !.warnings = @ \o BreadcrumbItemIssues(schema.items, 1, "warning")]

validate_organization(schema, res) ==
    [res EXCEPT
       !.organization_present = TRUE,
       !.errors = @ \o MissingIssues("Organization", "", ORGANIZATION_REQUIRED, schema.present),
       !.warnings = @ \o MissingIssues("Organization", "", ORGANIZATION_RECOMMENDED, schema.present)]

validate_website(schema, res) ==
    [res EXCEPT
       !.website_present = TRUE,
       !.errors = @ \o MissingIssues("WebSite", "", WEBSITE_REQUIRED, schema.present),
       !.info = IF "potentialAction" \notin schema.present
                THEN Append(@, SchemaIssue("WebSite", <<"", "potentialAction">>)) ELSE @,
       !.warnings = IF "potentialAction" \in schema.present
                       /\ schema.potential_action = "search_no_query_input"
                    THEN Append(@, SchemaIssue("WebSite", <<"potentialAction", "query-input">>))
                    ELSE @]

\* A plausible slip: the floor max(0, ...) left out.
calculate_coverage_score_no_floor(res) ==
    LET score ==
          (IF res.total_schemas > 0 THEN 20 ELSE 0)
          + (IF res.breadcrumb_present THEN 15 ELSE 0)
          + (IF res.organization_present THEN 15 ELSE 0)
          + (IF res.website_present THEN 10 ELSE 0)
          + (IF res.article_schema_valid THEN 20 ELSE 0)
          + (IF res.product_schema_valid THEN 20 ELSE 0)
    IN  Min2(score - Len(res.errors) * 5 - Len(res.warnings) * 2, 100)

calculate_coverage_score(res) ==
    LET score ==
          (IF res.total_schemas > 0 THEN 20 ELSE 0)
          + (IF res.breadcrumb_present THEN 15 ELSE 0)
          + (IF res.organization_present THEN 15 ELSE 0)
          + (IF res.website_present THEN 10 ELSE 0)
          + (IF res.article_schema_valid THEN 20 ELSE 0)
          + (IF res.product_schema_valid THEN 20 ELSE 0)
        error_deduction == Len(res.errors) * 5
        warning_deduction == Len(res.warnings) * 2
    IN  Min2(Max2(0, score - error_deduction - warning_deduction), 100)

\* the dispatch on the schema type in the loop of validate()
validate_block(schema, found) ==
    CASE schema.type \in VALIDATOR_ARTICLE_TYPES -> validate_article(schema, found)
      [] schema.type = "Product"        -> validate_product(schema, found)
      [] schema.type = "BreadcrumbList" -> validate_breadcrumb(schema, found)
      [] schema.type = "Organization"   -> validate_organization(schema, found)
      [] schema.type = "WebSite"        -> validate_website(schema, found)
      [] OTHER                          -> found

\* the for-loop of validate() run to its end: raised when a block that is no
\* JSON object makes schema.get raise
RECURSIVE ValidateBlocks(_, _)
ValidateBlocks(schemas, res) ==
    IF schemas = <<>> THEN [raised |-> FALSE, result |-> res]
    ELSE IF ~Head(schemas).is_dict THEN [raised |-> TRUE, result |-> res]
    ELSE ValidateBlocks(Tail(schemas),
           validate_block(Head(schemas),
                          [res EXCEPT !.schemas_found = Append(@, Head(schemas).type)]))

\* validate(html) as one call, on the blocks _extract_schemas returns
validate(schemas) ==
    IF schemas = <<>>
    THEN [raised |-> FALSE,
          result |-> [EmptyValidationResult EXCEPT
                        !.warnings = Append(@, SchemaIssue("General", <<"", "JSON-LD">>))]]
    ELSE LET r == ValidateBlocks(schemas,
                    [EmptyValidationResult EXCEPT !.total_schemas = Len(schemas)])
         IN  IF r.raised THEN r
             ELSE [raised |-> FALSE,
                   result |-> [r.result EXCEPT
                                 !.coverage_score = calculate_coverage_score(r.result)]]

\* validate(): schemas = _extract_schemas(html); the early return without JSON-LD
ValidateStart ==
    /\ vpc = "start"
    /\ IF schemas_in = <<>>
       THEN /\ v_result' = [v_result EXCEPT
                              !.warnings = Append(@, SchemaIssue("General", <<"", "JSON-LD">>))]
            /\ vpc' = "done"
       ELSE /\ v_result' = [v_result EXCEPT !.total_schemas = Len(schemas_in)]
            /\ vpc' = "loop"
    /\ UNCHANGED <<schemas_in, vidx, nonSchema>>

\* for schema in schemas: one iteration; a block that is no JSON object makes
\* schema.get raise, and validate() with it
ValidateBlock ==
    /\ vpc = "loop"
    /\ vidx <= Len(schemas_in)
    /\ LET schema == schemas_in[vidx]
           found == [v_result EXCEPT !.schemas_found = Append(@, schema.type)]
       IN  IF ~schema.is_dict
           THEN /\ vpc' = "raised"
                /\ UNCHANGED <<vidx, v_result>>
           ELSE /\ vidx' = vidx + 1
                /\ vpc' = vpc
                /\ v_result' = validate_block(schema, found)
    /\ UNCHANGED <<schemas_in, nonSchema>>

\* result.coverage_score = self._calculate_coverage_score(result); return
ValidateReturn ==
    /\ vpc = "loop"
    /\ vidx > Len(schemas_in)
    /\ v_result' = [v_result EXCEPT !.coverage_score = calculate_coverage_score(v_result)]
    /\ vpc' = "done"
    /\ UNCHANGED <<schemas_in, vidx, nonSchema>>

(* SchemaValidator: the inputs of the model *)
MaxBlocks == 2

BaseBlock ==
    [type |-> "Unknown", is_dict |-> TRUE, present |-> {}, author_kind |-> "dict_named",
     publisher_kind |-> "dict_full", date |-> DateIso, offers |-> {},
     availability_schema_org |-> TRUE, rating |-> "absent", items |-> <<>>,
     potential_action |-> "none"]

ListItem(position, name, item_name) ==
    [is_dict |-> TRUE, position |-> position, name |-> name, item_name |-> item_name]

ArticleFull ==
    [BaseBlock EXCEPT !.type = "Article",
       !.present = {"headline", "datePublished", "author", "mainEntityOfPage",
                    "dateModified", "image", "publisher"}]
ArticleBare == [BaseBlock EXCEPT !.type = "NewsArticle"]
ArticleSloppy ==
    [BaseBlock EXCEPT !.type = "BlogPosting",
       !.present = {"headline", "datePublished", "author", "publisher"},
       !.author_kind = "str", !.publisher_kind = "dict_bare", !.date = DateSlashes]
ArticleUnnamedAuthor ==
    [BaseBlock EXCEPT !.type = "Article",
       !.present = {"headline", "datePublished", "author", "image"},
       !.author_kind = "dict_unnamed", !.date = DateIsoTz]
ProductFull ==
    [BaseBlock EXCEPT !.type = "Product",
       !.present = {"name", "offers", "description", "image", "sku", "brand"},
       !.offers = {"price", "priceCurrency", "availability"}, !.rating = "dict_ok"]
ProductBare == [BaseBlock EXCEPT !.type = "Product"]
ProductSloppy ==
    [BaseBlock EXCEPT !.type = "Product", !.present = {"name", "offers", "image"},
       !.offers = {"price", "availability"}, !.availability_schema_org = FALSE,
       !.rating = "dict_no_value"]
BreadcrumbFull ==
    [BaseBlock EXCEPT !.type = "BreadcrumbList", !.present = {"itemListElement"},
       !.items = <<ListItem(TRUE, TRUE, FALSE), ListItem(TRUE, FALSE, TRUE)>>]
BreadcrumbEmpty == [BaseBlock EXCEPT !.type = "BreadcrumbList"]
BreadcrumbSloppy ==
    [BaseBlock EXCEPT !.type = "BreadcrumbList", !.present = {"itemListElement"},
       !.items = <<ListItem(FALSE, FALSE, FALSE),
                   [ListItem(FALSE, FALSE, FALSE) EXCEPT !.is_dict = FALSE]>>]
OrganizationFull ==
    [BaseBlock EXCEPT !.type = "Organization",
       !.present = {"name", "url", "logo", "contactPoint", "sameAs"}]
OrganizationBare == [BaseBlock EXCEPT !.type = "Organization"]
WebSiteFull ==
    [BaseBlock EXCEPT !.type = "WebSite", !.present = {"name", "url", "potentialAction"},
       !.potential_action = "search_with_query_input"]
WebSiteNoInput ==
    [BaseBlock EXCEPT !.type = "WebSite", !.present = {"name", "potentialAction"},
       !.potential_action = "search_no_query_input"]
WebSiteBare == [BaseBlock EXCEPT !.type = "WebSite"]
PersonBlock == [BaseBlock EXCEPT !.type = "Person", !.present = {"name"}]
NonObjectBlock == [BaseBlock EXCEPT !.is_dict = FALSE]

BlockPool ==
    {ArticleFull, ArticleBare, ArticleSloppy, ArticleUnnamedAuthor,
     ProductFull, ProductBare, ProductSloppy,
     BreadcrumbFull, BreadcrumbEmpty, BreadcrumbSloppy,
     OrganizationFull, OrganizationBare,
     WebSiteFull, WebSiteNoInput, WebSiteBare, PersonBlock, NonObjectBlock}

SchemaStart ==
    /\ vpc = "start"
    /\ vidx = 1
    /\ v_result = EmptyValidationResult

SchemaInit ==
    /\ schemas_in \in SeqsUpTo(BlockPool, MaxBlocks)
    /\ SchemaStart

SchemaIdle ==
    /\ schemas_in = <<>>
    /\ SchemaStart

----------------------------------------------------------------------------
(* Strings whose length matters are run-length encoded: a sequence of runs  *)
(* [ch, n], where the character " " stands for any whitespace.              *)

Run(ch, n) == [ch |-> ch, n |-> n]

RECURSIVE StrLen(_)
StrLen(s) == IF s = <<>> THEN 0 ELSE Head(s).n + StrLen(Tail(s))

RECURSIVE LStrip(_)
LStrip(s) == IF s # <<>> /\ Head(s).ch = " " THEN LStrip(Tail(s)) ELSE s

RECURSIVE RStrip(_)
RStrip(s) ==
    IF s # <<>> /\ s[Len(s)].ch = " " THEN RStrip(SubSeq(s, 1, Len(s) - 1)) ELSE s

\* str.strip()
Strip(s) == RStrip(LStrip(s))

\* an element or attribute that may be absent, with its text
Tag(text) == [found |-> TRUE, text |-> text]
NoTag == [found |-> FALSE, text |-> <<>>]

----------------------------------------------------------------------------
(* TechnicalSEO *)

Entry(issue, impact) == [issue |-> issue, impact |-> impact]

\* dict.get('impact', default) on an entry of issues[] or warnings[]
GetImpact(entry, default) ==
    IF entry.impact = "(no impact key)" THEN default ELSE entry.impact

IssueCost(entry) ==
    LET impact == GetImpact(entry, "MEDIUM")
    IN  CASE impact = "CRITICAL" -> 25
          [] impact = "HIGH"     -> 15
          [] impact = "MEDIUM"   -> 10
          [] OTHER               -> 5

WarningCost(entry) ==
    LET impact == GetImpact(entry, "LOW")
    IN  CASE impact = "HIGH"   -> 10
          [] impact = "MEDIUM" -> 5
          [] OTHER             -> 2

RECURSIVE SumIssueCosts(_)
SumIssueCosts(issues) ==
    IF issues = <<>> THEN 0 ELSE IssueCost(Head(issues)) + SumIssueCosts(Tail(issues))

RECURSIVE SumWarningCosts(_)
SumWarningCosts(warnings) ==
    IF warnings = <<>> THEN 0
    ELSE WarningCost(Head(warnings)) + SumWarningCosts(Tail(warnings))

\* A plausible slip: the sign of the CRITICAL deduction (score += 25).
calculate_score_critical_sign(issues, warnings) ==
    LET critical == SelectSeq(issues, LAMBDA e : GetImpact(e, "MEDIUM") = "CRITICAL")
    IN  Max2(0, Min2(100, 100 - SumIssueCosts(issues) + 50 * Len(critical)
                              - SumWarningCosts(warnings)))

\* TechnicalSEO._calculate_score
calculate_score(issues, warnings) ==
    Max2(0, Min2(100, 100 - SumIssueCosts(issues) - SumWarningCosts(warnings)))

MaxRedirects == 10

NoCanonical == [kind |-> "absent", netloc |-> "", frags |-> <<>>]

EmptyTechnicalResult ==
    [status_code |-> 0, redirect_chain |-> <<>>, redirect_count |-> 0,
     is_https |-> FALSE, canonical_url |-> NoCanonical, canonical_matches |-> TRUE,
     robots_txt_exists |-> FALSE, robots_txt_issues |-> <<>>,
     sitemap_exists |-> FALSE, sitemap_in_robots |-> FALSE,
     meta_robots |-> "None", is_indexable |-> TRUE, page_size_bytes |-> 0,
     ttfb_ms |-> 0, mobile_viewport |-> FALSE,
     issues |-> <<>>, warnings |-> <<>>, score |-> 0]

PageUrl == [netloc |-> BaseDomain, frags |-> <<"/blog/">>]

\* _urls_match: same netloc and same path once trailing slashes are stripped
urls_match(url1, url2) ==
    /\ url1.netloc = url2.netloc
    /\ NormalizeCrawled(url1.frags) = NormalizeCrawled(url2.frags)

\* what the page and the site can answer
CanonicalLinks ==
    {NoCanonical, [NoCanonical EXCEPT !.kind = "empty_href"]} \cup
    { [kind |-> "href", netloc |-> BaseDomain, frags |-> f] :
        f \in {<<"/blog/">>, <<"/blog/", "?ref=1">>, <<"/about">>} } \cup
    { [kind |-> "href", netloc |-> "other.org", frags |-> <<"/blog/">>] }
MetaRobotsTags == {"absent", "index, follow", "NOINDEX"}
RobotsTxtAnswers ==
    {[found |-> FALSE, disallow_all |-> FALSE, allow |-> FALSE, sitemap |-> FALSE]} \cup
    { [found |-> TRUE, disallow_all |-> d, allow |-> a, sitemap |-> m] :
        d \in BOOLEAN, a \in BOOLEAN, m \in BOOLEAN }
PageSizes == {1000, 2 * 1024 * 1024, 4 * 1024 * 1024}
TtfbSamples == {200, 700, 1500}

\* analyze(): the HTTPS check and the first fetch
AnalyzeFetch ==
    /\ tpc = "start"
    /\ \E https \in BOOLEAN, first \in {"none", "redirect", "page"}, ttfb \in TtfbSamples :
         LET r1 == [t_result EXCEPT
                      !.is_https = https, !.ttfb_ms = ttfb,
                      !.issues = IF https THEN @
                                 ELSE Append(@, Entry("Site not using HTTPS", "HIGH"))]
         IN  IF first = "none"
             THEN /\ t_result' = [r1 EXCEPT
                        !.issues = Append(@, Entry("Failed to fetch page", "CRITICAL"))]
                  /\ tpc' = "done"
                  /\ t_current' = first
             ELSE /\ t_result' = r1
                  /\ tpc' = "redirects"
                  /\ t_current' = first
    /\ UNCHANGED <<opc, o_result, nonSeo>>

\* A plausible slip: the loop follows redirects without the hop limit.
RedirectLoopUncapped == t_current = "redirect"

\* while current_response.is_redirect and len(redirect_chain) < 10
RedirectLoopContinues ==
    t_current = "redirect" /\ Len(t_result.redirect_chain) < MaxRedirects

\* one iteration of: while current_response.is_redirect and len(chain) < 10
AnalyzeFollowRedirect ==
    /\ tpc = "redirects"
    /\ RedirectLoopContinues
    /\ \E answer \in {"redirect", "page", "none", "no_location"} :
         /\ t_result' = [t_result EXCEPT
                           !.redirect_chain = Append(@, Len(@))]
         /\ t_current' = IF answer = "no_location" THEN t_current ELSE answer
         /\ tpc' = IF answer \in {"no_location", "none"} THEN "checks" ELSE tpc
    /\ UNCHANGED <<opc, o_result, nonSeo>>

check_robots_txt(answer, res) ==
    IF ~answer.found
    THEN [res EXCEPT !.warnings = Append(@, Entry("robots.txt not found", "LOW"))]
    ELSE LET blocking == answer.disallow_all /\ ~answer.allow
         IN  [res EXCEPT
                !.robots_txt_exists = TRUE,
                !.sitemap_in_robots = answer.sitemap,
                !.robots_txt_issues =
                    IF blocking THEN Append(@, "robots.txt may be blocking entire site") ELSE @,
                !.warnings =
                    IF blocking
                    THEN Append(@, Entry("robots.txt may be blocking entire site", "CRITICAL"))
                    ELSE @]

check_sitemap(found, res) ==
    IF found
    THEN [res EXCEPT
            !.sitemap_exists = TRUE,
            !.warnings = IF res.sitemap_in_robots THEN @
                         ELSE Append(@, Entry("Sitemap not referenced in robots.txt", "LOW"))]
    ELSE [res EXCEPT !.warnings = Append(@, Entry("sitemap.xml not found", "MEDIUM"))]

MetaHasNoindex(content) == content \in {"NOINDEX", "noindex, nofollow"}

check_canonical(canonical, res) ==
    CASE canonical.kind = "absent" ->
           [res EXCEPT !.warnings = Append(@, Entry("No canonical URL specified", "MEDIUM"))]
      [] canonical.kind = "empty_href" -> [res EXCEPT !.canonical_url = canonical]
      [] OTHER ->
           LET matches == urls_match(PageUrl, canonical)
           IN  [res EXCEPT
                  !.canonical_url = canonical,
                  !.canonical_matches = matches,
                  !.warnings = IF matches THEN @
                               ELSE Append(@, Entry("Canonical URL differs from page URL",
                                                    "MEDIUM"))]

check_meta_robots(tag, res) ==
    IF tag = "absent" THEN res
    ELSE [res EXCEPT
            !.meta_robots = tag,
            !.is_indexable = IF MetaHasNoindex(tag) THEN FALSE ELSE @,
            !.warnings = IF MetaHasNoindex(tag)
                         THEN Append(@, Entry("Page has noindex directive", "HIGH")) ELSE @]

check_page_size(res) ==
    IF res.page_size_bytes > 3 * 1024 * 1024
    THEN [res EXCEPT !.issues = Append(@, Entry("Page size too large", "HIGH"))]
    ELSE IF res.page_size_bytes > 1024 * 1024
    THEN [res EXCEPT !.warnings = Append(@, Entry("Page size is large", "MEDIUM"))]
    ELSE res

check_ttfb(res) ==
    IF res.ttfb_ms > 1000
    THEN [res EXCEPT !.issues = Append(@, Entry("Slow TTFB", "HIGH"))]
    ELSE IF res.ttfb_ms > 500
    THEN [res EXCEPT !.warnings = Append(@, Entry("TTFB could be better", "MEDIUM"))]
    ELSE res

\* analyze() from "Get final response" to the return, on a page and a site
\* drawn from the given sets
AnalyzeChecksOver(Canonicals, MetaTags, Viewports, RobotsAnswers, SitemapAnswers, Sizes) ==
    /\ tpc = "checks" \/ (tpc = "redirects" /\ ~RedirectLoopContinues)
    /\ \E final \in {"none", "page"}, status \in {200},
          canonical \in Canonicals, meta \in MetaTags, viewport \in Viewports,
          robots \in RobotsAnswers, sitemap \in SitemapAnswers, size \in Sizes :
         /\ t_result.redirect_chain = <<>> => final = "page"
         /\ LET chain == t_result.redirect_chain
                refetched == chain # <<>> /\ final = "page"
                r1 == [t_result EXCEPT
                         !.redirect_count = Len(chain),
                         !.status_code = IF chain = <<>> \/ refetched THEN status ELSE 301,
                         !.page_size_bytes = size]
                r2 == IF r1.redirect_count > 2
                      THEN [r1 EXCEPT !.warnings = Append(@, Entry("Long redirect chain", "MEDIUM"))]
                      ELSE r1
                r3 == check_meta_robots(meta, check_canonical(canonical, r2))
                r4 == IF viewport THEN [r3 EXCEPT !.mobile_viewport = TRUE]
                      ELSE [r3 EXCEPT !.issues = Append(@, Entry("Missing viewport meta tag", "HIGH"))]
                r5 == check_sitemap(sitemap, check_robots_txt(robots, r4))
                r6 == check_ttfb(check_page_size(r5))
            IN  t_result' = [r6 EXCEPT !.score = calculate_score(r6.issues, r6.warnings)]
    /\ tpc' = "done"
    /\ UNCHANGED <<t_current, opc, o_result, nonSeo>>

\* analyze() from "Get final response" to the return
AnalyzeChecks ==
    AnalyzeChecksOver(CanonicalLinks, MetaRobotsTags, BOOLEAN, RobotsTxtAnswers, BOOLEAN,
                      PageSizes)

\* the same on a page without canonical link and meta robots tag
AnalyzeChecksPlainPage ==
    AnalyzeChecksOver({NoCanonical}, {"absent"}, BOOLEAN, RobotsTxtAnswers, {TRUE}, {1000})

----------------------------------------------------------------------------
(* OnPageSEO *)

TITLE_MIN == 30
TITLE_MAX == 60
DESC_MIN == 120
DESC_MAX == 160
ONPAGE_MIN_WORD_COUNT == 300

EmptyOnPageResult ==
    [title |-> <<>>, title_length |-> 0, title_optimal |-> FALSE,
     meta_description_length |-> 0, meta_description_optimal |-> FALSE,
     h1_count |-> 0, h1_optimal |-> FALSE, heading_hierarchy_valid |-> TRUE,
     word_count |-> 0, is_thin_content |-> FALSE, internal_links_count |-> 0,
     total_images |-> 0, images_missing_alt |-> 0,
     issues |-> <<>>, warnings |-> <<>>, score |-> 0]

analyze_title(title_tag, res) ==
    IF ~title_tag.found
    THEN [res EXCEPT !.issues = Append(@, Entry("Missing title tag", "HIGH"))]
    ELSE LET title == Strip(title_tag.text)
             n == StrLen(title)
         IN  [res EXCEPT
                !.title = title, !.title_length = n,
                !.title_optimal = (TITLE_MIN <= n /\ n <= TITLE_MAX),
                !.issues = IF n = 0 THEN Append(@, Entry("Empty title tag", "HIGH")) ELSE @,
                !.warnings =
                    IF n # 0 /\ n < TITLE_MIN THEN Append(@, Entry("Title too short", "MEDIUM"))
                    ELSE IF n > TITLE_MAX THEN Append(@, Entry("Title too long", "MEDIUM"))
                    ELSE @]

analyze_meta_description(meta_desc, res) ==
    IF ~meta_desc.found
    THEN [res EXCEPT !.issues = Append(@, Entry("Missing meta description", "MEDIUM"))]
    ELSE LET n == StrLen(Strip(meta_desc.text))
         IN  [res EXCEPT
                !.meta_description_length = n,
                !.meta_description_optimal = (DESC_MIN <= n /\ n <= DESC_MAX),
                !.issues = IF n = 0 THEN Append(@, Entry("Empty meta description", "MEDIUM"))
                           ELSE @,
                !.warnings =
                    IF n # 0 /\ n < DESC_MIN
                    THEN Append(@, Entry("Meta description too short", "LOW"))
                    ELSE IF n > DESC_MAX
                    THEN Append(@, Entry("Meta description too long", "LOW"))
                    ELSE @]

\* _check_heading_hierarchy: a level more than one below its predecessor
HierarchySkips(headings) ==
    \E i \in 2..Len(headings) : headings[i] > headings[i - 1] + 1

analyze_headings(headings, res) ==
    LET h1_count == Len(SelectSeq(headings, LAMBDA l : l = 1))
        skips == HierarchySkips(headings)
    IN  [res EXCEPT
           !.h1_count = h1_count,
           !.h1_optimal = (h1_count = 1),
           !.heading_hierarchy_valid = ~skips,
           !.issues = IF h1_count = 0 THEN Append(@, Entry("Missing H1 tag", "HIGH")) ELSE @,
           !.warnings =
               LET w == IF h1_count > 1 THEN Append(@, Entry("Multiple H1 tags", "MEDIUM"))
                        ELSE @
               IN  IF skips THEN Append(w, Entry("Heading hierarchy has skipped levels", "LOW"))
                   ELSE w]

analyze_content(content_words, res) ==
    IF ~content_words.found THEN res
    ELSE [res EXCEPT
            !.word_count = content_words.words,
            !.is_thin_content = content_words.words < ONPAGE_MIN_WORD_COUNT,
            !.warnings = IF content_words.words < ONPAGE_MIN_WORD_COUNT
                         THEN Append(@, Entry("Thin content", "MEDIUM")) ELSE @]

analyze_links(internal, res) ==
    [res EXCEPT
       !.internal_links_count = internal,
       !.warnings = IF internal < 3 THEN Append(@, Entry("Few internal links", "LOW")) ELSE @]

analyze_images(images, res) ==
    [res EXCEPT
       !.total_images = images.total,
       !.images_missing_alt = images.missing,
       !.warnings = IF images.total > 0 /\ images.missing > 0
                    THEN Append(@, Entry("image(s) missing alt text", "MEDIUM")) ELSE @]

\* OnPageSEO._calculate_score
onpage_calculate_score(issues, warnings) ==
    Max2(0, Min2(100, 100 - SumIssueCosts(issues) - SumWarningCosts(warnings)))

\* what a page can hold
TitleTags ==
    {NoTag} \cup
    { Tag(t) : t \in {<<>>, <<Run(" ", 2)>>, <<Run("t", 10)>>,
                      <<Run(" ", 1), Run("t", 30), Run(" ", 1)>>,
                      <<Run("t", 60)>>, <<Run("t", 61)>>} }
MetaDescriptions ==
    {NoTag} \cup
    { Tag(t) : t \in {<<>>, <<Run("d", 119)>>, <<Run(" ", 3), Run("d", 120)>>,
                      <<Run("d", 160)>>, <<Run("d", 161)>>} }
HeadingLists == {<<>>, <<1>>, <<1, 2, 3>>, <<1, 3>>, <<1, 1>>, <<2, 4>>, <<2>>}
ContentWords ==
    {[found |-> FALSE, words |-> 0]} \cup {[found |-> TRUE, words |-> w] : w \in {0, 299, 300}}
InternalLinkCounts == {0, 2, 3}
ImageSets == {[total |-> 0, missing |-> 0], [total |-> 2, missing |-> 0],
              [total |-> 2, missing |-> 1]}

\* OnPageSEO.analyze(url, html_content)
OnPageAnalyze ==
    /\ opc = "start"
    /\ \E html_given \in BOOLEAN, fetch \in {0, 404, 200},
          title_tag \in TitleTags, meta_desc \in MetaDescriptions,
          headings \in HeadingLists, content_words \in ContentWords,
          internal \in InternalLinkCounts, images \in ImageSets :
         IF ~html_given /\ fetch # 200
         THEN o_result' = [o_result EXCEPT
                             !.issues = Append(@, Entry("Failed to fetch page", "CRITICAL"))]
         ELSE LET r == analyze_images(images,
                         analyze_links(internal,
                           analyze_content(content_words,
                             analyze_headings(headings,
                               analyze_meta_description(meta_desc,
                                 analyze_title(title_tag, o_result))))))
              IN  o_result' = [r EXCEPT !.score = onpage_calculate_score(r.issues, r.warnings)]
    /\ opc' = "done"
    /\ UNCHANGED <<tpc, t_current, t_result, nonSeo>>

\* one of the two analyzers is called on the page
SeoInit ==
    /\ \/ tpc = "start" /\ opc = "idle"
       \/ tpc = "idle" /\ opc = "start"
    /\ t_current = "none"
    /\ t_result = EmptyTechnicalResult
    /\ o_result = EmptyOnPageResult

SeoIdle ==
    /\ tpc = "idle"
    /\ opc = "idle"
    /\ t_current = "none"
    /\ t_result = EmptyTechnicalResult
    /\ o_result = EmptyOnPageResult

----------------------------------------------------------------------------
(* TechnicalSEO._calculate_score on a result's lists, before and after one *)
(* more entry is appended                                                  *)
MaxIssues == 4
MaxWarnings == 1

IssueImpacts == {"CRITICAL", "HIGH", "LOW", "(no impact key)"}
WarningImpacts == {"HIGH", "CRITICAL"}
ExtraEntries ==
    [kind : {"issue", "warning"}, impact : {"CRITICAL", "MEDIUM", "(no impact key)"}]

EntriesOf(impacts) == [i \in 1..Len(impacts) |-> Entry("given", impacts[i])]

ScoreStart ==
    /\ score_pc = "start"
    /\ score_before = 0
    /\ score_after = 0

ScoreInit ==
    /\ score_issues \in {EntriesOf(l) : l \in SeqsUpTo(IssueImpacts, MaxIssues)}
    /\ score_warnings \in {EntriesOf(l) : l \in SeqsUpTo(WarningImpacts, MaxWarnings)}
    /\ score_extra \in ExtraEntries
    /\ ScoreStart

ScoreIdle ==
    /\ score_issues = <<>>
    /\ score_warnings = <<>>
    /\ score_extra = [kind |-> "issue", impact |-> "CRITICAL"]
    /\ ScoreStart

\* result.score = self._calculate_score(result)
ScoreCompute ==
    /\ score_pc = "start"
    /\ score_before' = calculate_score(score_issues, score_warnings)
    /\ score_pc' = "scored"
    /\ UNCHANGED <<score_issues, score_warnings, score_extra, score_after, nonScore>>

\* one more entry appended to issues[] or warnings[], and the score recomputed
ScoreAppendAndRecompute ==
    /\ score_pc = "scored"
    /\ LET e == Entry("added", score_extra.impact)
           is == IF score_extra.kind = "issue" THEN Append(score_issues, e) ELSE score_issues
           ws == IF score_extra.kind = "warning" THEN Append(score_warnings, e)
                 ELSE score_warnings
       IN  /\ score_issues' = is
           /\ score_warnings' = ws
           /\ score_after' = calculate_score(is, ws)
    /\ score_pc' = "done"
    /\ UNCHANGED <<score_extra, score_before, nonScore>>

----------------------------------------------------------------------------
(* ArticleExtractor *)
(* A JSON-LD script is [kind, items]: "object" holds one item, "graph" the  *)
(* members of its @graph, "list" the members of a top-level list, "scalar"  *)
(* one value that is no JSON object; "malformed" and "empty" hold nothing.  *)
(* With extruct the sequence is the list extruct returns for 'json-ld'.     *)
(* truthy(x) of a string field is modelled by a boolean where only that is  *)
(* read (date_published, author).                                           *)

EXTRACTOR_ARTICLE_TYPES ==
    {"Article", "NewsArticle", "BlogPosting", "TechArticle", "ScholarlyArticle",
     "SocialMediaPosting", "Report", "WebPage"}
MIN_WORD_COUNT == 300

Msg(text, n) == [text |-> text, n |-> n]

NoSchemaData ==
    [found |-> FALSE, type |-> "None", title |-> <<>>, datePublished |-> FALSE,
     author |-> FALSE]

\* the result dict built from a matching item
SchemaData(item) ==
    [found |-> TRUE, type |-> item.type,
     title |-> IF item.headline.found /\ item.headline.text # <<>>
               THEN item.headline.text
               ELSE IF item.name.found THEN item.name.text ELSE <<>>,
     datePublished |-> item.datePublished,
     author |-> item.author = "named"]

\* _extract_with_extruct: top-level items only; item.get on a value that is
\* no object raises, and the except clause returns None
RECURSIVE extract_with_extruct(_)
extract_with_extruct(items) ==
    IF items = <<>> THEN NoSchemaData
    ELSE LET h == Head(items)
         IN  CASE h.kind = "scalar" -> NoSchemaData
               [] h.kind = "object" /\ h.items[1].type \in EXTRACTOR_ARTICLE_TYPES ->
                    SchemaData(h.items[1])
               [] OTHER -> extract_with_extruct(Tail(items))

RECURSIVE FirstArticleItem(_)
FirstArticleItem(items) ==
    IF items = <<>> THEN NoSchemaData
    ELSE IF Head(items).is_dict /\ Head(items).type \in EXTRACTOR_ARTICLE_TYPES
    THEN SchemaData(Head(items))
    ELSE FirstArticleItem(Tail(items))

\* _extract_jsonld_manually: @graph and lists are flattened, what is no
\* object is skipped, a script that does not parse is skipped
RECURSIVE extract_jsonld_manually(_)
extract_jsonld_manually(scripts) ==
    IF scripts = <<>> THEN NoSchemaData
    ELSE LET h == Head(scripts)
             hit == IF h.kind \in {"empty", "malformed"} THEN NoSchemaData
                    ELSE FirstArticleItem(h.items)
         IN  IF hit.found THEN hit ELSE extract_jsonld_manually(Tail(scripts))

extract_from_jsonld(extruct, jsonld) ==
    IF extruct THEN extract_with_extruct(jsonld) ELSE extract_jsonld_manually(jsonld)

EmptyArticleData(status) ==
    [title |-> <<>>, url |-> <<>>, status_code |-> status, date_published |-> FALSE,
     author |-> FALSE, word_count |-> 0, h1_count |-> 0, meta_title |-> NoTag,
     meta_description |-> <<>>, meta_description_length |-> 0,
     canonical |-> NoCanonical, indexable |-> TRUE, has_schema |-> FALSE,
     schema_type |-> "None", reading_time_minutes |-> 0,
     issues |-> <<>>, warnings |-> <<>>]

\* A plausible slip: the <h1> tried only when <title> gave nothing.
extract_from_html_title_first(page, article) ==
    LET titled ==
          IF article.title # <<>>
          THEN [article EXCEPT
                  !.meta_title = IF page.title_tag.found
                                 THEN Tag(Strip(page.title_tag.text)) ELSE @]
          ELSE LET t1 == IF page.title_tag.found
                         THEN [article EXCEPT
                                 !.meta_title = Tag(Strip(page.title_tag.text)),
                                 !.title = Strip(page.title_tag.text)]
                         ELSE article
               IN  IF t1.title = <<>> /\ page.h1s # <<>>
                   THEN [t1 EXCEPT !.title = Strip(page.h1s[1])] ELSE t1
    IN  [titled EXCEPT
           !.meta_description = IF page.meta_desc.found THEN page.meta_desc.text ELSE @,
           !.meta_description_length =
               IF page.meta_desc.found THEN StrLen(page.meta_desc.text) ELSE @,
           !.canonical = IF page.canonical.kind = "absent" THEN @ ELSE page.canonical,
           !.author = IF ~@ /\ page.author_meta THEN TRUE ELSE @,
           !.date_published = IF ~@ /\ page.date_element THEN TRUE ELSE @]

\* _extract_from_html
extract_from_html(page, article) ==
    LET titled ==
          IF article.title # <<>>
          THEN [article EXCEPT
                  !.meta_title = IF page.title_tag.found
                                 THEN Tag(Strip(page.title_tag.text)) ELSE @]
          ELSE LET t1 == IF page.title_tag.found
                         THEN [article EXCEPT
                                 !.meta_title = Tag(Strip(page.title_tag.text)),
                                 !.title = Strip(page.title_tag.text)]
                         ELSE article
               IN  IF page.h1s # <<>>
                   THEN [t1 EXCEPT !.title = Strip(page.h1s[1])] ELSE t1
    IN  [titled EXCEPT
           !.meta_description = IF page.meta_desc.found THEN page.meta_desc.text ELSE @,
           !.meta_description_length =
               IF page.meta_desc.found THEN StrLen(page.meta_desc.text) ELSE @,
           !.canonical = IF page.canonical.kind = "absent" THEN @ ELSE page.canonical,
           !.author = IF ~@ /\ page.author_meta THEN TRUE ELSE @,
           !.date_published = IF ~@ /\ page.date_element THEN TRUE ELSE @]

\* _analyze_content: the words of the first of <article>, <main>, a content
\* <div>, <body> that the page has
article_analyze_content(page, article) ==
    [article EXCEPT
       !.h1_count = Len(page.h1s),
       !.word_count = IF page.content.found THEN page.content.words ELSE @]

\* _check_indexability
check_indexability(page, article) ==
    LET noindex == MetaHasNoindex(page.meta_robots)
        elsewhere ==
          /\ article.canonical.kind = "href"
          /\ PathOf(article.canonical.frags) # PathOf(PageUrl.frags)
    IN  [article EXCEPT
           !.indexable = IF noindex THEN FALSE ELSE @,
           !.issues = IF noindex THEN Append(@, Msg("Page has noindex directive", 0)) ELSE @,
           !.warnings = IF elsewhere
                        THEN Append(@, Msg("Canonical points to different URL", 0)) ELSE @]

GenerateIssuesWith(article, thin) ==
    LET n == StrLen(article.title)
        titleIssue == IF article.title = <<>> THEN <<Msg("Missing title", 0)>> ELSE <<>>
        titleWarn ==
          IF article.title = <<>> THEN <<>>
          ELSE IF n < 30 THEN <<Msg("Title too short (< 30 chars)", 0)>>
          ELSE IF n > 60 THEN <<Msg("Title too long (> 60 chars)", 0)>>
          ELSE <<>>
        descIssue == IF article.meta_description = <<>>
                     THEN <<Msg("Missing meta description", 0)>> ELSE <<>>
        descWarn ==
          IF article.meta_description = <<>> THEN <<>>
          ELSE IF article.meta_description_length < 120
          THEN <<Msg("Meta description too short (< 120 chars)", 0)>>
          ELSE IF article.meta_description_length > 160
          THEN <<Msg("Meta description too long (> 160 chars)", 0)>>
          ELSE <<>>
        h1Issue == IF article.h1_count = 0 THEN <<Msg("Missing H1 tag", 0)>> ELSE <<>>
        h1Warn == IF article.h1_count > 1
                  THEN <<Msg("Multiple H1 tags", article.h1_count)>> ELSE <<>>
        thinWarn == IF thin THEN <<Msg("Thin content", article.word_count)>> ELSE <<>>
        schemaWarn == IF ~article.has_schema
                      THEN <<Msg("No Article schema markup", 0)>> ELSE <<>>
        dateWarn == IF ~article.date_published
                    THEN <<Msg("Missing published date", 0)>> ELSE <<>>
        authorWarn == IF ~article.author
                      THEN <<Msg("Missing author information", 0)>> ELSE <<>>
    IN  [article EXCEPT
           !.issues = @ \o titleIssue \o descIssue \o h1Issue,
           !.warnings = @ \o titleWarn \o descWarn \o h1Warn \o thinWarn
                          \o schemaWarn \o dateWarn \o authorWarn]

\* A plausible slip: <= for < in the thin-content rule.
generate_issues_thin_inclusive(article) ==
    GenerateIssuesWith(article, article.word_count <= MIN_WORD_COUNT)

\* _generate_issues
generate_issues(article) ==
    GenerateIssuesWith(article, article.word_count < MIN_WORD_COUNT)

\* bool(response) of "if not response": None is falsy, and a requests.Response
\* is truthy exactly when its status code is below 400 (Response.ok)
ResponseTruthy(response) == response.kind = "response" /\ response.status < 400

\* A plausible slip: the minutes rounded up instead of down.
with_reading_time_rounded_up(article) ==
    IF article.word_count > 0
    THEN [article EXCEPT !.reading_time_minutes = Max2(1, (article.word_count + 199) \div 200)]
    ELSE article

\* if article.word_count > 0:
\*     article.reading_time_minutes = max(1, article.word_count // 200)
with_reading_time(article) ==
    IF article.word_count > 0
    THEN [article EXCEPT !.reading_time_minutes = Max2(1, article.word_count \div 200)]
    ELSE article

\* extract_single(url): [ret, article]; an exception raised by the fetch or by
\* the parsing is caught by the except clause, which returns None
extract_single(extruct, response, page) ==
    IF response.kind = "raises" \/ ~ResponseTruthy(response)
    THEN [ret |-> "None", article |-> EmptyArticleData(0)]
    ELSE IF response.status # 200
    THEN [ret |-> "article",
          article |-> [EmptyArticleData(response.status) EXCEPT
                         !.indexable = FALSE,
                         !.issues = Append(@, Msg("Non-200 status code", response.status))]]
    ELSE
      LET schema_data == extract_from_jsonld(extruct, page.jsonld)
          a0 == EmptyArticleData(response.status)
          a1 == IF schema_data.found
                THEN [a0 EXCEPT !.has_schema = TRUE,
                                !.schema_type = schema_data.type,
                                !.title = schema_data.title,
                                !.date_published = schema_data.datePublished,
                                !.author = schema_data.author]
                ELSE a0
          a2 == check_indexability(page,
                  article_analyze_content(page, extract_from_html(page, a1)))
      IN  [ret |-> "article", article |-> generate_issues(with_reading_time(a2))]

ExtractSingle ==
    /\ a_pc = "start"
    /\ LET r == extract_single(EXTRUCT_AVAILABLE, a_response, a_page)
       IN  /\ a_ret' = r.ret
           /\ a_article' = r.article
    /\ a_pc' = "done"
    /\ UNCHANGED <<EXTRUCT_AVAILABLE, a_response, a_page, nonArticle>>

(* ArticleExtractor: the inputs of the model *)
MaxScripts == 2

HeadlineA == <<Run("A", 40)>>
NameN == <<Run("N", 35)>>
TitleB == <<Run("B", 45)>>
HeadingC == <<Run("C", 20)>>

JItem(type, headline, name, date, author) ==
    [is_dict |-> TRUE, type |-> type, headline |-> headline, name |-> name,
     datePublished |-> date, author |-> author]
NonObjectItem == [JItem("", NoTag, NoTag, FALSE, "missing") EXCEPT !.is_dict = FALSE]

ArticleItem == JItem("Article", Tag(HeadlineA), NoTag, TRUE, "named")
NamedPosting == JItem("BlogPosting", Tag(<<>>), Tag(NameN), FALSE, "unnamed")
BareWebPage == JItem("WebPage", NoTag, NoTag, FALSE, "missing")
ProductItem == JItem("Product", NoTag, Tag(NameN), FALSE, "missing")

Script(kind, items) == [kind |-> kind, items |-> items]
ExtructItems ==
    { Script("object", <<ArticleItem>>), Script("object", <<NamedPosting>>),
      Script("object", <<BareWebPage>>), Script("object", <<ProductItem>>),
      Script("graph", <<ProductItem, ArticleItem>>),
      Script("scalar", <<NonObjectItem>>) }
ManualScripts ==
    ExtructItems \cup
    { Script("list", <<NonObjectItem, ArticleItem>>),
      Script("malformed", <<>>), Script("empty", <<>>) }

PageExtras ==
    { [meta_desc |-> NoTag, canonical |-> NoCanonical, meta_robots |-> "absent",
       author_meta |-> FALSE, date_element |-> FALSE],
      [meta_desc |-> Tag(<<Run("d", 140)>>),
       canonical |-> [kind |-> "href", netloc |-> BaseDomain, frags |-> <<"/about">>],
       meta_robots |-> "NOINDEX", author_meta |-> TRUE, date_element |-> TRUE],
      [meta_desc |-> Tag(<<Run("d", 30)>>),
       canonical |-> [kind |-> "href", netloc |-> BaseDomain, frags |-> <<"/blog/">>],
       meta_robots |-> "index, follow", author_meta |-> FALSE, date_element |-> TRUE] }

ArticlePage(jsonld, title_tag, h1s, content, extras) ==
    [jsonld |-> jsonld, title_tag |-> title_tag, h1s |-> h1s, content |-> content,
     meta_desc |-> extras.meta_desc, canonical |-> extras.canonical,
     meta_robots |-> extras.meta_robots, author_meta |-> extras.author_meta,
     date_element |-> extras.date_element]

PageTitleTags == {NoTag, Tag(<<Run(" ", 1), Run("B", 45), Run(" ", 2)>>), Tag(<<>>)}
PageH1Lists == {<<>>, <<HeadingC>>, <<<<>>, HeadingC>>}
PageContents ==
    {[found |-> FALSE, words |-> 0]} \cup
    {[found |-> TRUE, words |-> w] : w \in {150, 299, 300}}

BlankPage ==
    ArticlePage(<<>>, NoTag, <<>>, [found |-> FALSE, words |-> 0],
                [meta_desc |-> NoTag, canonical |-> NoCanonical, meta_robots |-> "absent",
                 author_meta |-> FALSE, date_element |-> FALSE])

ArticlePages(extruct) ==
    { ArticlePage(j, t, h, c, x) :
        j \in SeqsUpTo(IF extruct THEN ExtructItems ELSE ManualScripts, MaxScripts),
        t \in PageTitleTags, h \in PageH1Lists, c \in PageContents, x \in PageExtras }

ArticleStart ==
    /\ a_pc = "start"
    /\ a_ret = "pending"
    /\ a_article = EmptyArticleData(0)

ArticleInit ==
    /\ EXTRUCT_AVAILABLE \in BOOLEAN
    /\ \/ /\ a_response \in {[kind |-> "none", status |-> 0]}
                              \cup {[kind |-> "response", status |-> c] : c \in {301, 404, 500}}
          /\ a_page = BlankPage
       \/ /\ a_response = [kind |-> "response", status |-> 200]
          /\ a_page \in ArticlePages(EXTRUCT_AVAILABLE)
    /\ ArticleStart

ArticleCallIdle ==
    /\ a_response = [kind |-> "none", status |-> 0]
    /\ a_page = BlankPage
    /\ ArticleStart

ArticleIdle ==
    /\ EXTRUCT_AVAILABLE = TRUE
    /\ ArticleCallIdle

----------------------------------------------------------------------------
(* ProductExtractor *)
(* JSON-LD scripts are as for the article extractor.  price and rating are  *)
(* numbers with 0 for a value that is falsy in Python (None, 0, '');        *)
(* image_url is TRUE for a non-empty string.                                *)

EmptyProductData(status) ==
    [name |-> <<>>, url |-> <<>>, price |-> 0, currency |-> FALSE, availability |-> "",
     sku |-> FALSE, brand |-> FALSE, rating |-> 0, review_count |-> 0,
     description_length |-> 0, image_url |-> FALSE, image_alt_present |-> FALSE,
     canonical |-> NoCanonical, indexable |-> TRUE, status_code |-> status,
     has_schema |-> FALSE, issues |-> <<>>, warnings |-> <<>>]

NoProductSchema ==
    [found |-> FALSE, name |-> <<>>, price |-> 0, currency |-> FALSE,
     availability |-> "", sku |-> FALSE, brand |-> FALSE, rating |-> 0,
     review_count |-> 0, image |-> FALSE, description_length |-> 0]

\* the normalisation of offers.availability in _parse_product_schema
NormalizeAvailability(availability) ==
    CASE availability = "https://schema.org/InStock" -> "InStock"
      [] availability = "http://schema.org/OutOfStock" -> "OutOfStock"
      [] availability = "https://schema.org/PreOrder" -> "PreOrder"
      [] OTHER -> availability

\* _parse_product_schema
parse_product_schema(item) ==
    LET priced == item.offers.kind = "dict"
        rated == item.rating.kind = "dict" /\ item.rating.numeric
    IN  [found |-> TRUE,
         name |-> IF item.name.found THEN item.name.text ELSE <<>>,
         price |-> IF priced THEN item.offers.price ELSE 0,
         currency |-> priced /\ item.offers.currency,
         availability |-> IF priced THEN NormalizeAvailability(item.offers.availability)
                          ELSE "",
         sku |-> item.sku,
         brand |-> item.brand,
         rating |-> IF rated THEN item.rating.value ELSE 0,
         review_count |-> IF rated THEN item.rating.reviews ELSE 0,
         image |-> item.image = "url",
         description_length |-> item.description_length]

\* _extract_with_extruct: item.get on a value that is no object raises, and
\* the except clause returns None
RECURSIVE product_extract_with_extruct(_)
product_extract_with_extruct(items) ==
    IF items = <<>> THEN NoProductSchema
    ELSE LET h == Head(items)
         IN  CASE h.kind = "scalar" -> NoProductSchema
               [] h.kind = "object" /\ h.items[1].type = "Product" ->
                    parse_product_schema(h.items[1])
               [] OTHER -> product_extract_with_extruct(Tail(items))

RECURSIVE FirstProductItem(_)
FirstProductItem(items) ==
    IF items = <<>> THEN NoProductSchema
    ELSE IF Head(items).is_dict /\ Head(items).type = "Product"
    THEN parse_product_schema(Head(items))
    ELSE FirstProductItem(Tail(items))

\* _extract_jsonld_manually
RECURSIVE product_extract_jsonld_manually(_)
product_extract_jsonld_manually(scripts) ==
    IF scripts = <<>> THEN NoProductSchema
    ELSE LET h == Head(scripts)
             hit == IF h.kind \in {"empty", "malformed"} THEN NoProductSchema
                    ELSE FirstProductItem(h.items)
         IN  IF hit.found THEN hit ELSE product_extract_jsonld_manually(Tail(scripts))

product_extract_from_jsonld(extruct, jsonld) ==
    IF extruct THEN product_extract_with_extruct(jsonld)
    ELSE product_extract_jsonld_manually(jsonld)

\* _extract_from_html
product_extract_from_html(page, product) ==
    LET named == IF product.name = <<>> /\ page.h1s # <<>>
                 THEN [product EXCEPT !.name = Strip(page.h1s[1])] ELSE product
        linked == [named EXCEPT !.canonical = page.canonical]
        schemaAlt == IF linked.image_url /\ page.schema_img = "alt"
                     THEN [linked EXCEPT !.image_alt_present = TRUE] ELSE linked
        classImg ==
          IF ~schemaAlt.image_url /\ page.class_img.found
          THEN [schemaAlt EXCEPT
                  !.image_url = page.class_img.src,
                  !.image_alt_present = IF page.class_img.alt THEN TRUE ELSE @]
          ELSE schemaAlt
    IN  IF classImg.price = 0 /\ page.price_el.found /\ page.price_el.value > 0
        THEN [classImg EXCEPT !.price = page.price_el.value]
        ELSE classImg

\* _check_indexability
product_check_indexability(page, product) ==
    IF MetaHasNoindex(page.meta_robots)
    THEN [product EXCEPT !.indexable = FALSE,
                         !.issues = Append(@, Msg("Page has noindex directive", 0))]
    ELSE product

\* _generate_issues
product_generate_issues(product) ==
    LET nameIssue == IF product.name = <<>> THEN <<Msg("Missing product name", 0)>> ELSE <<>>
        nameWarn == IF product.name # <<>> /\ StrLen(product.name) < 10
                    THEN <<Msg("Product name too short", 0)>> ELSE <<>>
        priceIssue == IF product.price = 0 THEN <<Msg("Missing price", 0)>> ELSE <<>>
        availIssue == IF product.availability = ""
                      THEN <<Msg("Missing availability", 0)>> ELSE <<>>
        schemaIssue == IF ~product.has_schema
                       THEN <<Msg("No Product schema markup", 0)>> ELSE <<>>
        imageWarn == IF ~product.image_url THEN <<Msg("No product image found", 0)>>
                     ELSE IF ~product.image_alt_present
                     THEN <<Msg("Product image missing alt text", 0)>> ELSE <<>>
        descWarn == IF product.description_length = 0
                    THEN <<Msg("No product description in schema", 0)>>
                    ELSE IF product.description_length < 50
                    THEN <<Msg("Product description too short", 0)>> ELSE <<>>
    IN  [product EXCEPT
           !.issues = @ \o nameIssue \o priceIssue \o availIssue \o schemaIssue,
           !.warnings = @ \o nameWarn \o imageWarn \o descWarn]

\* extract_single(url): [ret, product]
product_extract_single(extruct, response, page) ==
    IF response.kind = "raises" \/ ~ResponseTruthy(response)
    THEN [ret |-> "None", product |-> EmptyProductData(0)]
    ELSE IF response.status # 200
    THEN [ret |-> "product",
          product |-> [EmptyProductData(response.status) EXCEPT
                         !.indexable = FALSE,
                         !.issues = Append(@, Msg("Non-200 status code", response.status))]]
    ELSE
      LET schema_data == product_extract_from_jsonld(extruct, page.jsonld)
          p0 == EmptyProductData(response.status)
          p1 == IF schema_data.found
                THEN [p0 EXCEPT !.has_schema = TRUE,
                                !.name = schema_data.name,
                                !.price = schema_data.price,
                                !.currency = schema_data.currency,
                                !.availability = schema_data.availability,
                                !.sku = schema_data.sku,
                                !.brand = schema_data.brand,
                                !.rating = schema_data.rating,
                                !.review_count = schema_data.review_count,
                                !.image_url = schema_data.image,
                                !.description_length = schema_data.description_length]
                ELSE p0
      IN  [ret |-> "product",
           product |-> product_generate_issues(
                         product_check_indexability(page,
                           product_extract_from_html(page, p1)))]

ProductExtractSingle ==
    /\ p_pc = "start"
    /\ LET r == product_extract_single(EXTRUCT_AVAILABLE, p_response, p_page)
       IN  /\ p_ret' = r.ret
           /\ p_product' = r.product
    /\ p_pc' = "done"
    /\ UNCHANGED <<p_response, p_page, nonProduct>>

(* ProductExtractor: the inputs of the model *)
ProductNameP == <<Run("P", 12)>>
ShortNameQ == <<Run("Q", 4)>>

NoOffers == [kind |-> "missing", price |-> 0, currency |-> FALSE, availability |-> ""]
NoRating == [kind |-> "missing", numeric |-> FALSE, value |-> 0, reviews |-> 0]

PItem(type, name, offers, rating, image, description_length) ==
    [is_dict |-> TRUE, type |-> type, name |-> name, offers |-> offers,
     rating |-> rating, image |-> image, description_length |-> description_length,
     sku |-> type = "Product", brand |-> FALSE]
NonObjectProductItem ==
    [PItem("", NoTag, NoOffers, NoRating, "missing", 0) EXCEPT !.is_dict = FALSE]

ProductRich ==
    PItem("Product", Tag(ProductNameP),
          [kind |-> "dict", price |-> 1999, currency |-> TRUE,
           availability |-> "https://schema.org/InStock"],
          [kind |-> "dict", numeric |-> TRUE, value |-> 4, reviews |-> 12], "url", 80)
ProductPlain ==
    PItem("Product", Tag(ShortNameQ),
          [kind |-> "dict", price |-> 0, currency |-> FALSE, availability |-> "Discontinued"],
          [kind |-> "dict", numeric |-> FALSE, value |-> 0, reviews |-> 0], "dict_empty", 20)
ProductNameless == PItem("Product", NoTag, NoOffers, NoRating, "missing", 0)
OfferItem == PItem("Offer", Tag(ProductNameP), NoOffers, NoRating, "missing", 0)

ProductExtructItems ==
    { Script("object", <<ProductRich>>), Script("object", <<ProductPlain>>),
      Script("object", <<ProductNameless>>), Script("object", <<OfferItem>>),
      Script("graph", <<OfferItem, ProductRich>>),
      Script("scalar", <<NonObjectProductItem>>) }
ProductManualScripts ==
    ProductExtructItems \cup
    { Script("list", <<NonObjectProductItem, ProductRich>>), Script("malformed", <<>>) }

NoImg == [found |-> FALSE, src |-> FALSE, alt |-> FALSE]
ClassImgs == {NoImg, [found |-> TRUE, src |-> TRUE, alt |-> TRUE],
              [found |-> TRUE, src |-> TRUE, alt |-> FALSE],
              [found |-> TRUE, src |-> FALSE, alt |-> TRUE]}
PriceElements == {[found |-> FALSE, value |-> 0], [found |-> TRUE, value |-> 0],
                  [found |-> TRUE, value |-> 2500]}

ProductPage(jsonld, h1s, meta_robots, schema_img, class_img, price_el) ==
    [jsonld |-> jsonld, h1s |-> h1s, canonical |-> NoCanonical,
     meta_robots |-> meta_robots, schema_img |-> schema_img, class_img |-> class_img,
     price_el |-> price_el]

BlankProductPage ==
    ProductPage(<<>>, <<>>, "absent", "absent", NoImg, [found |-> FALSE, value |-> 0])

ProductPages(extruct) ==
    { ProductPage(j, h, r, s, c, e) :
        j \in SeqsUpTo(IF extruct THEN ProductExtructItems ELSE ProductManualScripts,
                       MaxScripts),
        h \in {<<>>, <<HeadingC>>}, r \in {"absent", "NOINDEX"},
        s \in {"absent", "no_alt", "alt"}, c \in ClassImgs, e \in PriceElements }

ProductStart ==
    /\ p_pc = "start"
    /\ p_ret = "pending"
    /\ p_product = EmptyProductData(0)

ProductInit ==
    /\ \/ /\ p_response \in {[kind |-> "none", status |-> 0],
                             [kind |-> "raises", status |-> 0]}
                              \cup {[kind |-> "response", status |-> c] : c \in {301, 404, 500}}
          /\ p_page = BlankProductPage
       \/ /\ p_response = [kind |-> "response", status |-> 200]
          /\ p_page \in ProductPages(EXTRUCT_AVAILABLE)
    /\ ProductStart

ProductIdle ==
    /\ p_response = [kind |-> "none", status |-> 0]
    /\ p_page = BlankProductPage
    /\ ProductStart

----------------------------------------------------------------------------
(* extract_from_urls of ArticleExtractor and ProductExtractor *)
(* An input URL is [url, response, page]: its fragments and what the site   *)
(* answers for it.  b_fetches[i] counts the GETs issued for urls[i].        *)

EmptyArticleExtractionResult ==
    [total_found |-> 0, articles |-> <<>>, with_schema |-> 0, indexable_count |-> 0,
     thin_content_count |-> 0, missing_meta_count |-> 0, errors |-> <<>>]

EmptyProductExtractionResult ==
    [total_found |-> 0, products |-> <<>>, with_schema |-> 0, with_price |-> 0,
     with_availability |-> 0, with_rating |-> 0, indexable_count |-> 0,
     missing_image_alt |-> 0, platform_detected |-> "None", errors |-> <<>>]

PLATFORM_INDICATORS ==
    << <<"woocommerce", {"/wp-content/plugins/woocommerce/", "woocommerce", "wc-",
                         "add-to-cart"}>>,
       <<"shopify", {"cdn.shopify.com", "shopify", "/collections/", "product-form"}>>,
       <<"magento", {"/static/frontend/", "magento", "mage/", "catalog-product"}>>,
       <<"prestashop", {"prestashop", "/modules/", "id_product"}>>,
       <<"opencart", {"opencart", "route=product"}>> >>

\* _detect_platform_from_url: the first platform one of whose indicators occurs
\* in the lower-cased URL
RECURSIVE PlatformAmong(_, _)
PlatformAmong(platforms, url) ==
    IF platforms = <<>> THEN "None"
    ELSE IF \E i \in 1..Len(url) : url[i] \in Head(platforms)[2]
    THEN Head(platforms)[1]
    ELSE PlatformAmong(Tail(platforms), url)

detect_platform_from_url(url) == PlatformAmong(PLATFORM_INDICATORS, url)

Bump(flag) == IF flag THEN 1 ELSE 0

\* A plausible slip: the new record put in front of the list.
CountArticlePrepend(res, article) ==
    [res EXCEPT
       !.articles = <<article>> \o @,
       !.with_schema = @ + Bump(article.has_schema),
       !.indexable_count = @ + Bump(article.indexable),
       !.thin_content_count = @ + Bump(article.word_count < MIN_WORD_COUNT),
       !.missing_meta_count = @ + Bump(article.meta_description = <<>>)]

\* A plausible slip: <= for < in the thin-content count.
CountArticleThinInclusive(res, article) ==
    [res EXCEPT
       !.articles = Append(@, article),
       !.with_schema = @ + Bump(article.has_schema),
       !.indexable_count = @ + Bump(article.indexable),
       !.thin_content_count = @ + Bump(article.word_count <= MIN_WORD_COUNT),
       !.missing_meta_count = @ + Bump(article.meta_description = <<>>)]

\* the body of the for-loop of ArticleExtractor.extract_from_urls for one article
CountArticle(res, article) ==
    [res EXCEPT
       !.articles = Append(@, article),
       !.with_schema = @ + Bump(article.has_schema),
       !.indexable_count = @ + Bump(article.indexable),
       !.thin_content_count = @ + Bump(article.word_count < MIN_WORD_COUNT),
       !.missing_meta_count = @ + Bump(article.meta_description = <<>>)]

\* the body of the for-loop of ProductExtractor.extract_from_urls for one product
CountProduct(res, product) ==
    [res EXCEPT
       !.products = Append(@, product),
       !.with_schema = @ + Bump(product.has_schema),
       !.with_price = @ + Bump(product.price # 0),
       !.with_availability = @ + Bump(product.availability # ""),
       !.with_rating = @ + Bump(product.rating # 0),
       !.indexable_count = @ + Bump(product.indexable),
       !.missing_image_alt = @ + Bump(~product.image_alt_present /\ product.image_url)]

BatchStart ==
    /\ b_pc = "loop"
    /\ b_i = 1
    /\ b_fetches = [i \in 1..Len(b_urls) |-> 0]
    /\ b_platform = "None"
    /\ b_result = IF b_kind = "article" THEN EmptyArticleExtractionResult
                  ELSE EmptyProductExtractionResult

\* one iteration of "for url in urls[:max_articles]"
ArticleBatchStep ==
    /\ b_kind = "article"
    /\ b_pc = "loop"
    /\ b_i <= Len(Take(b_urls, b_max))
    /\ LET r == extract_single(EXTRUCT_AVAILABLE, b_urls[b_i].response, b_urls[b_i].page)
       IN  b_result' = IF r.ret # "None"
                       THEN CountArticle(b_result, [r.article EXCEPT !.url = b_urls[b_i].url])
                       ELSE b_result
    /\ b_fetches' = [b_fetches EXCEPT ![b_i] = @ + 1]
    /\ b_i' = b_i + 1
    /\ UNCHANGED <<b_kind, b_urls, b_max, b_pc, b_platform, nonBatch>>

\* one iteration of "for url in urls[:max_products]"
ProductBatchStep ==
    /\ b_kind = "product"
    /\ b_pc = "loop"
    /\ b_i <= Len(Take(b_urls, b_max))
    /\ LET r == product_extract_single(EXTRUCT_AVAILABLE, b_urls[b_i].response,
                                       b_urls[b_i].page)
       IN  /\ b_result' = IF r.ret # "None"
                          THEN CountProduct(b_result,
                                            [r.product EXCEPT !.url = b_urls[b_i].url])
                          ELSE b_result
           /\ b_platform' = IF r.ret # "None" /\ b_platform = "None" /\ r.product.has_schema
                            THEN detect_platform_from_url(b_urls[b_i].url)
                            ELSE b_platform
    /\ b_fetches' = [b_fetches EXCEPT ![b_i] = @ + 1]
    /\ b_i' = b_i + 1
    /\ UNCHANGED <<b_kind, b_urls, b_max, b_pc, nonBatch>>

\* after the loop: total_found (and platform_detected) are set, the result returned
BatchReturn ==
    /\ b_pc = "loop"
    /\ b_i > Len(Take(b_urls, b_max))
    /\ b_result' = IF b_kind = "article"
                   THEN [b_result EXCEPT !.total_found = Len(b_result.articles)]
                   ELSE [b_result EXCEPT !.total_found = Len(b_result.products),
                                         !.platform_detected = b_platform]
    /\ b_pc' = "done"
    /\ UNCHANGED <<b_kind, b_urls, b_max, b_i, b_fetches, b_platform, nonBatch>>

(* extract_from_urls: the inputs of the model *)
MaxBatchUrls == 3

NoAnswer == [kind |-> "none", status |-> 0]
Raises == [kind |-> "raises", status |-> 0]
Answer(status) == [kind |-> "response", status |-> status]

BatchUrl(url, response, page) == [url |-> url, response |-> response, page |-> page]

GoodArticlePage ==
    ArticlePage(<<Script("object", <<ArticleItem>>)>>, Tag(TitleB), <<HeadingC>>,
                [found |-> TRUE, words |-> 300],
                [meta_desc |-> Tag(<<Run("d", 140)>>), canonical |-> NoCanonical,
                 meta_robots |-> "absent", author_meta |-> TRUE, date_element |-> TRUE])
ThinArticlePage ==
    ArticlePage(<<>>, NoTag, <<>>, [found |-> TRUE, words |-> 150],
                [meta_desc |-> NoTag, canonical |-> NoCanonical, meta_robots |-> "NOINDEX",
                 author_meta |-> FALSE, date_element |-> FALSE])

ArticleBatchPool ==
    { BatchUrl(<<"/blog/", "down">>, NoAnswer, BlankPage),
      BatchUrl(<<"/blog/", "odd">>, Raises, BlankPage),
      BatchUrl(<<"/blog/", "moved">>, Answer(301), BlankPage),
      BatchUrl(<<"/blog/", "gone">>, Answer(404), BlankPage),
      BatchUrl(<<"/blog/", "my-post">>, Answer(200), GoodArticlePage),
      BatchUrl(<<"/blog/", "note">>, Answer(200), ThinArticlePage) }

RichProductPage ==
    ProductPage(<<Script("object", <<ProductRich>>)>>, <<HeadingC>>, "absent", "no_alt",
                NoImg, [found |-> FALSE, value |-> 0])
PoorProductPage ==
    ProductPage(<<>>, <<>>, "NOINDEX", "absent", NoImg, [found |-> TRUE, value |-> 2500])

ProductBatchPool ==
    { BatchUrl(<<"/p/", "down">>, NoAnswer, BlankProductPage),
      BatchUrl(<<"/p/", "odd">>, Raises, BlankProductPage),
      BatchUrl(<<"/p/", "moved">>, Answer(301), BlankProductPage),
      BatchUrl(<<"/p/", "gone">>, Answer(500), BlankProductPage),
      BatchUrl(<<"/collections/", "shoe">>, Answer(200), RichProductPage),
      BatchUrl(<<"/p/", "mage/">>, Answer(200), PoorProductPage) }

BatchInit ==
    /\ EXTRUCT_AVAILABLE \in BOOLEAN
    /\ b_kind \in {"article", "product"}
    /\ b_urls \in SeqsUpTo(IF b_kind = "article" THEN ArticleBatchPool ELSE ProductBatchPool,
                           MaxBatchUrls)
    /\ b_max \in 0..MaxBatchUrls
    /\ BatchStart

BatchIdle ==
    /\ b_kind = "article"
    /\ b_urls = <<>>
    /\ b_max = 0
    /\ BatchStart

----------------------------------------------------------------------------
(* ContentScanner *)
(* The sub-scanners are called as black boxes: a call appends its name to   *)
(* k_calls and returns one of the results that sub-scanner can produce;     *)
(* SchemaValidator.validate is computed on the homepage's JSON-LD blocks.   *)
(* A dict is a record; {} is EmptyDict and d.get(key, default) is Get.      *)

EmptyDict == [empty |-> TRUE]
Get(d, key, default) == IF key \in DOMAIN d THEN d[key] ELSE default

\* homepage_html = response.text if response else None; "none" is None
HomepageHtml(home) ==
    IF ResponseTruthy(home) THEN [text |-> home.text, blocks |-> home.blocks]
    ELSE [text |-> "none", blocks |-> <<>>]

\* truth value of the html string
HtmlTruthy(html) == html.text = "page"

\* [u.loc for u in sitemap_result.urls] if sitemap_result.found else []
UrlsIfFound(res, field) == IF res.found THEN res[field] ELSE <<>>

\* round() of the float 0.35*t + 0.35*o + 0.30*c for whole-number scores, given
\* the sum in hundredths: the nearest whole number; on a tie the float sum is
\* exact or off by one ulp, and round() gives the even neighbour or, when the
\* lower neighbour is odd, either neighbour
RoundChoices(hundredths) ==
    LET q == hundredths \div 100
        r == hundredths % 100
    IN  IF r < 50 THEN {q}
        ELSE IF r > 50 THEN {q + 1}
        ELSE IF q % 2 = 0 THEN {q} ELSE {q, q + 1}

\* A plausible slip: the schema weight applied to the on-page score as well.
WeightedHundredthsEqualThirds(scores) ==
    35 * scores.technical_seo + 30 * scores.onpage_seo + 30 * scores.schema_coverage

\* scores['technical_seo'] * 0.35 + scores['onpage_seo'] * 0.35 +
\* scores['schema_coverage'] * 0.30, in hundredths
WeightedHundredths(scores) ==
    35 * scores.technical_seo + 35 * scores.onpage_seo + 30 * scores.schema_coverage

\* _generate_summary without overall_score
SummaryOf(results) ==
    [content_found |->
       [sitemaps |-> Len(Get(results.discovery_sitemap, "sitemap_urls", <<>>)),
        sitemap_urls |-> Get(results.discovery_sitemap, "total_urls", 0),
        rss_feeds |-> Len(Get(results.discovery_rss, "feed_urls", <<>>)),
        rss_items |-> Get(results.discovery_rss, "total_items", 0)],
     articles |->
       [total |-> Get(results.articles, "total_found", 0),
        with_schema |-> Get(results.articles, "with_schema", 0),
        indexable |-> Get(results.articles, "indexable_count", 0),
        thin_content |-> Get(results.articles, "thin_content_count", 0)],
     products |->
       [total |-> Get(results.products, "total_found", 0),
        with_schema |-> Get(results.products, "with_schema", 0),
        with_price |-> Get(results.products, "with_price", 0),
        with_availability |-> Get(results.products, "with_availability", 0)],
     scores |->
       [technical_seo |-> Get(results.technical_seo, "score", 0),
        onpage_seo |-> Get(results.onpage_seo, "score", 0),
        schema_coverage |-> Get(results.schema_validation, "coverage_score", 0)],
     issues_count |->
       [technical |-> Len(Get(results.technical_seo, "issues", <<>>)),
        onpage |-> Len(Get(results.onpage_seo, "issues", <<>>)),
        schema |-> Len(Get(results.schema_validation, "errors", <<>>))]]

\* SchemaValidationResult.to_dict
SchemaDict(res) ==
    [total_schemas |-> res.total_schemas, schemas_found |-> res.schemas_found,
     errors |-> res.errors, warnings |-> res.warnings,
     coverage_score |-> res.coverage_score]

\* results as scan() creates it
EmptyScanResults ==
    [discovery_sitemap |-> EmptyDict, discovery_rss |-> EmptyDict,
     discovery_sampled_urls |-> EmptyDict, articles |-> EmptyDict,
     products |-> EmptyDict, schema_validation |-> EmptyDict,
     technical_seo |-> EmptyDict, onpage_seo |-> EmptyDict, summary |-> EmptyDict]

(* what the sub-scanners return to the scanner *)
SitemapOutcomes ==
    { [found |-> FALSE, sitemap_urls |-> <<>>, urls |-> <<>>, total_urls |-> 0],
      [found |-> TRUE, sitemap_urls |-> <<<<"/sitemap.xml">>>>, urls |-> <<>>,
       total_urls |-> 0],
      [found |-> TRUE, sitemap_urls |-> <<<<"/sitemap.xml">>>>,
       urls |-> << <<"/blog/", "my-post">>, <<"/p/">> >>, total_urls |-> 2] }

RssOutcomes ==
    { [found |-> FALSE, feed_urls |-> <<>>, items |-> <<>>, total_items |-> 0],
      [found |-> TRUE, feed_urls |-> <<<<"/feed">>>>,
       items |-> << <<"/blog/", "note">> >>, total_items |-> 1] }

\* the article and product lists of a SamplerResult for the given sources: URLs
\* of the sources or of the crawl, none twice
SampleOutcomes(sitemap_urls, rss_urls) ==
    LET known == Range(sitemap_urls) \cup Range(rss_urls)
        articleUrls == {u \in known \cup {<<"/blog/", "crawled">>} :
                          u \in Range(rss_urls) \/ classify_url(u) = "article"}
        productUrls == {u \in known : classify_url(u) = "product"}
    IN  { [articles |-> a, products |-> p] :
            a \in {s \in SeqsUpTo(articleUrls, 2) :
                     \A i, j \in 1..Len(s) : s[i] = s[j] => i = j},
            p \in SeqsUpTo(productUrls, 1) }

\* ArticleExtractionResult.to_dict for n URLs
ArticleOutcomes(n) ==
    { [total_found |-> found, articles |-> found,
       with_schema |-> IF schema THEN found ELSE 0,
       indexable_count |-> found,
       thin_content_count |-> IF schema THEN 0 ELSE found,
       missing_meta_count |-> 0, errors |-> <<>>] :
        found \in 0..n, schema \in BOOLEAN }

\* ProductExtractionResult.to_dict for n URLs
ProductOutcomes(n) ==
    { [total_found |-> found, products |-> found, with_schema |-> found,
       with_price |-> found, with_availability |-> 0, with_rating |-> 0,
       indexable_count |-> found, missing_image_alt |-> 0, errors |-> <<>>] :
        found \in 0..n }

\* TechnicalSEOResult.to_dict: the fields the scanner reads
TechnicalOutcomes ==
    { [score |-> 0, issues |-> <<Entry("Failed to fetch page", "CRITICAL")>>],
      [score |-> 100, issues |-> <<>>],
      [score |-> 85, issues |-> <<Entry("Site not using HTTPS", "HIGH")>>] }

\* OnPageSEOResult.to_dict: the fields the scanner reads
OnPageOutcomes ==
    { [score |-> 0, issues |-> <<Entry("Failed to fetch page", "CRITICAL")>>],
      [score |-> 100, issues |-> <<>>],
      [score |-> 85, issues |-> <<Entry("Missing title tag", "HIGH")>>] }

Called(name) == k_calls' = Append(k_calls, name)

scanLocals == <<k_sitemap_result, k_rss_result, k_sampled>>
scanInputs == <<k_entry, k_home, k_max_articles, k_max_products>>

\* scan(): response = self.http_client.get(url)
ScanFetchHomepage ==
    /\ k_entry = "scan" /\ k_pc = "fetch"
    /\ Called("http_client.get")
    /\ k_pc' = "sitemap"
    /\ UNCHANGED <<scanInputs, scanLocals, k_results, nonScan>>

\* 1. self.sitemap_discovery.discover(url)
ScanSitemapDiscovery ==
    /\ k_entry = "scan" /\ k_pc = "sitemap"
    /\ Called("sitemap_discovery.discover")
    /\ \E r \in SitemapOutcomes :
         /\ k_sitemap_result' = r
         /\ k_results' = [k_results EXCEPT !.discovery_sitemap = r]
    /\ k_pc' = "rss"
    /\ UNCHANGED <<scanInputs, k_rss_result, k_sampled, nonScan>>

\* 2. self.rss_discovery.discover(url, homepage_html)
ScanRssDiscovery ==
    /\ k_entry = "scan" /\ k_pc = "rss"
    /\ Called("rss_discovery.discover")
    /\ \E r \in RssOutcomes :
         /\ k_rss_result' = r
         /\ k_results' = [k_results EXCEPT !.discovery_rss = r]
    /\ k_pc' = "sample"
    /\ UNCHANGED <<scanInputs, k_sitemap_result, k_sampled, nonScan>>

\* 3. self.url_sampler.sample(url, sitemap_urls=..., rss_urls=...)
ScanSample ==
    /\ k_entry = "scan" /\ k_pc = "sample"
    /\ Called("url_sampler.sample")
    /\ \E s \in SampleOutcomes(UrlsIfFound(k_sitemap_result, "urls"),
                               UrlsIfFound(k_rss_result, "items")) :
         /\ k_sampled' = s
         /\ k_results' = [k_results EXCEPT !.discovery_sampled_urls = s]
    /\ k_pc' = "articles"
    /\ UNCHANGED <<scanInputs, k_sitemap_result, k_rss_result, nonScan>>

\* 4. article extraction, skipped when no article URL was sampled
ScanArticles ==
    /\ k_entry = "scan" /\ k_pc = "articles"
    /\ LET article_urls == Take(k_sampled.articles, k_max_articles)
       IN  IF article_urls # <<>>
           THEN /\ Called("article_extractor.extract_from_urls")
                /\ \E r \in ArticleOutcomes(Len(article_urls)) :
                     k_results' = [k_results EXCEPT !.articles = r]
           ELSE /\ UNCHANGED k_calls
                /\ k_results' = [k_results EXCEPT
                                   !.articles = [total_found |-> 0, articles |-> 0]]
    /\ k_pc' = "products"
    /\ UNCHANGED <<scanInputs, scanLocals, nonScan>>

\* 5. product extraction, skipped when no product URL was sampled
ScanProducts ==
    /\ k_entry = "scan" /\ k_pc = "products"
    /\ LET product_urls == Take(k_sampled.products, k_max_products)
       IN  IF product_urls # <<>>
           THEN /\ Called("product_extractor.extract_from_urls")
                /\ \E r \in ProductOutcomes(Len(product_urls)) :
                     k_results' = [k_results EXCEPT !.products = r]
           ELSE /\ UNCHANGED k_calls
                /\ k_results' = [k_results EXCEPT
                                   !.products = [total_found |-> 0, products |-> 0]]
    /\ k_pc' = "schema"
    /\ UNCHANGED <<scanInputs, scanLocals, nonScan>>

\* 6. schema validation of the homepage; an exception raised by validate()
\* leaves scan() with it
ScanSchemaValidation ==
    /\ k_entry = "scan" /\ k_pc = "schema"
    /\ LET html == HomepageHtml(k_home)
           v == validate(html.blocks)
       IN  IF HtmlTruthy(html)
           THEN /\ Called("schema_validator.validate")
                /\ IF v.raised
                   THEN k_pc' = "raised" /\ UNCHANGED k_results
                   ELSE /\ k_pc' = "technical"
                        /\ k_results' = [k_results EXCEPT
                                           !.schema_validation = SchemaDict(v.result)]
           ELSE /\ UNCHANGED k_calls
                /\ k_pc' = "technical"
                /\ k_results' = [k_results EXCEPT
                     !.schema_validation = [error |-> "Could not fetch homepage"]]
    /\ UNCHANGED <<scanInputs, scanLocals, nonScan>>

\* 7. self.technical_seo.analyze(url)
ScanTechnical ==
    /\ k_entry = "scan" /\ k_pc = "technical"
    /\ Called("technical_seo.analyze")
    /\ \E r \in TechnicalOutcomes : k_results' = [k_results EXCEPT !.technical_seo = r]
    /\ k_pc' = "onpage"
    /\ UNCHANGED <<scanInputs, scanLocals, nonScan>>

\* 8. self.onpage_seo.analyze(url, homepage_html)
ScanOnPage ==
    /\ k_entry = "scan" /\ k_pc = "onpage"
    /\ Called("onpage_seo.analyze")
    /\ \E r \in OnPageOutcomes : k_results' = [k_results EXCEPT !.onpage_seo = r]
    /\ k_pc' = "summary"
    /\ UNCHANGED <<scanInputs, scanLocals, nonScan>>

\* 9. results['summary'] = self._generate_summary(results); return results
ScanSummary ==
    /\ k_entry = "scan" /\ k_pc = "summary"
    /\ Called("_generate_summary")
    /\ LET summary == SummaryOf(k_results)
       IN  \E overall \in RoundChoices(WeightedHundredths(summary.scores)) :
             k_results' = [k_results EXCEPT
                             !.summary = [summary |-> summary, overall_score |-> overall]]
    /\ k_pc' = "returned"
    /\ UNCHANGED <<scanInputs, scanLocals, nonScan>>

\* quick_scan(url), the whole call
QuickScan ==
    /\ k_entry = "quick_scan" /\ k_pc = "fetch"
    /\ IF ~ResponseTruthy(k_home)
       THEN /\ k_calls' = <<"http_client.get">>
            /\ k_results' = [error |-> "Failed to fetch URL"]
            /\ k_pc' = "returned"
       ELSE LET v == validate(k_home.blocks)
            IN  IF v.raised
                THEN /\ k_calls' = <<"http_client.get", "schema_validator.validate">>
                     /\ k_pc' = "raised"
                     /\ UNCHANGED k_results
                ELSE /\ k_calls' = <<"http_client.get", "schema_validator.validate",
                                     "technical_seo.analyze", "onpage_seo.analyze">>
                     /\ k_pc' = "returned"
                     /\ \E t \in TechnicalOutcomes, o \in OnPageOutcomes :
                          k_results' =
                            [schema |-> SchemaDict(v.result), technical |-> t, onpage |-> o,
                             summary |->
                               [technical_score |-> t.score, onpage_score |-> o.score,
                                schema_score |-> v.result.coverage_score,
                                total_issues |-> Len(t.issues) + Len(o.issues)
                                                 + Len(v.result.errors)]]
    /\ UNCHANGED <<scanInputs, scanLocals, nonScan>>

\* scan_articles_only(url), the whole call
ScanArticlesOnly ==
    /\ k_entry = "scan_articles_only" /\ k_pc = "fetch"
    /\ \E sm \in SitemapOutcomes, rss \in RssOutcomes :
       \E s \in SampleOutcomes(UrlsIfFound(sm, "urls"), UrlsIfFound(rss, "items")) :
         LET article_urls == Take(s.articles, k_max_articles)
             before == <<"http_client.get", "sitemap_discovery.discover",
                         "rss_discovery.discover", "url_sampler.sample">>
         IN  /\ k_sitemap_result' = sm
             /\ k_rss_result' = rss
             /\ k_sampled' = s
             /\ IF article_urls # <<>>
                THEN /\ k_calls' = Append(before, "article_extractor.extract_from_urls")
                     /\ k_results' \in ArticleOutcomes(Len(article_urls))
                ELSE /\ k_calls' = before
                     /\ k_results' = [total_found |-> 0, articles |-> 0]
    /\ k_pc' = "returned"
    /\ UNCHANGED <<scanInputs, nonScan>>

\* A plausible slip: the feeds consulted as in scan_articles_only.
ProductsOnlyDiscoveryWithRss ==
    <<"sitemap_discovery.discover", "rss_discovery.discover", "url_sampler.sample">>

\* the calls scan_products_only makes before the extraction
ProductsOnlyDiscovery == <<"sitemap_discovery.discover", "url_sampler.sample">>

\* scan_products_only(url), the whole call
ScanProductsOnly ==
    /\ k_entry = "scan_products_only" /\ k_pc = "fetch"
    /\ \E sm \in SitemapOutcomes :
       \E s \in SampleOutcomes(UrlsIfFound(sm, "urls"), <<>>) :
         LET product_urls == Take(s.products, k_max_products)
             before == ProductsOnlyDiscovery
         IN  /\ k_sitemap_result' = sm
             /\ k_sampled' = s
             /\ IF product_urls # <<>>
                THEN /\ k_calls' = Append(before, "product_extractor.extract_from_urls")
                     /\ k_results' \in ProductOutcomes(Len(product_urls))
                ELSE /\ k_calls' = before
                     /\ k_results' = [total_found |-> 0, products |-> 0]
    /\ k_pc' = "returned"
    /\ UNCHANGED <<scanInputs, k_rss_result, nonScan>>

(* ContentScanner: the inputs of the model *)
MaxScanArticles == 2
MaxScanProducts == 1

HomeAnswer(kind, status, text, blocks) ==
    [kind |-> kind, status |-> status, text |-> text, blocks |-> blocks]

HomeAnswers ==
    { HomeAnswer("none", 0, "none", <<>>),
      HomeAnswer("response", 500, "page", <<>>),
      HomeAnswer("response", 301, "page", <<>>),
      HomeAnswer("response", 200, "empty", <<>>) }
    \cup { HomeAnswer("response", 200, "page", b) :
             b \in { <<>>, <<ArticleFull>>, <<OrganizationFull, WebSiteFull>>,
                     <<ArticleSloppy, ProductSloppy>>, <<NonObjectBlock>>,
                     <<ArticleFull, NonObjectBlock>> } }

ScanStart ==
    /\ k_pc = "fetch"
    /\ k_calls = <<>>
    /\ k_sitemap_result = EmptyDict
    /\ k_rss_result = EmptyDict
    /\ k_sampled = EmptyDict
    /\ k_results = IF k_entry = "scan" THEN EmptyScanResults ELSE EmptyDict

ScanInit ==
    /\ k_entry \in {"scan", "quick_scan", "scan_articles_only", "scan_products_only"}
    /\ k_home \in HomeAnswers
    /\ k_max_articles \in 0..MaxScanArticles
    /\ k_max_products \in 0..MaxScanProducts
    /\ ScanStart

ScanIdle ==
    /\ k_entry = "idle"
    /\ k_home = HomeAnswer("none", 0, "none", <<>>)
    /\ k_max_articles = 0
    /\ k_max_products = 0
    /\ ScanStart

----------------------------------------------------------------------------
(* RSSDiscovery *)
(* A feed URL is its path under the base URL.  r_feeds gives, per candidate  *)
(* URL, what a GET of it answers; r_fetched lists the URLs                  *)
(* _fetch_and_parse_feed was called with, in order.                         *)

RSS_COMMON_PATHS ==
    <<"/feed", "/feed/", "/rss", "/rss/", "/rss.xml", "/atom.xml", "/feed.xml",
      "/index.xml", "/feeds/posts/default", "/blog/feed", "/blog/rss", "/?feed=rss2",
      "/feed/rss/", "/feed/atom/">>

EmptyFeedResult ==
    [found |-> FALSE, feed_urls |-> <<>>, feed_type |-> "None", title |-> "",
     items |-> <<>>, total_items |-> 0, warnings |-> <<>>]

NoFeedData == [parsed |-> FALSE, type |-> "None", title |-> "", items |-> <<>>]

\* for x in xs: if x not in out: out.append(x)
RECURSIVE AppendMissing(_, _)
AppendMissing(out, xs) ==
    IF xs = <<>> THEN out
    ELSE AppendMissing(IF Head(xs) \in Range(out) THEN out ELSE Append(out, Head(xs)),
                       Tail(xs))

\* _discover_from_html: the hrefs of the <link rel="alternate"> tags with a feed
\* type and a non-empty href, none twice
discover_from_html(links) ==
    LET feedLinks == SelectSeq(links, LAMBDA l : l.feed_type /\ l.href # "")
    IN  AppendMissing(<<>>, [i \in 1..Len(feedLinks) |-> feedLinks[i].href])

\* _fetch_and_parse_feed: None unless a 200 answer looks like a feed and parses;
\* feedparser accepts a well-formed feed without entries, the manual parser
\* returns None when it found no item
fetch_and_parse_feed(doc, feedparser) ==
    IF doc.kind # "feed" THEN NoFeedData
    ELSE IF ~feedparser /\ doc.items = <<>> THEN NoFeedData
    ELSE [parsed |-> TRUE, type |-> doc.format, title |-> doc.title, items |-> doc.items]

\* A plausible slip: <= for < in the guard of the append.
AppendItemsOffByOne(items, new, cap) ==
    LET room == IF cap + 1 > Len(items) THEN cap + 1 - Len(items) ELSE 0
    IN  items \o Take(new, room)

\* for item in feed_data.get('items', []): if len(result.items) < self.max_items:
\* result.items.append(item)
AppendItems(items, new, cap) ==
    LET room == IF cap > Len(items) THEN cap - Len(items) ELSE 0
    IN  items \o Take(new, room)

\* discover(): the candidate list is built, from the HTML given or else from a
\* fetch of the homepage, then the common paths not yet in it
RssDiscoverStart ==
    /\ r_pc = "start"
    /\ LET discovered ==
             IF r_html.given THEN discover_from_html(r_html.links)
             ELSE IF r_home.status = 200 THEN discover_from_html(r_home.links)
             ELSE <<>>
       IN  r_queue' = AppendMissing(discovered, RSS_COMMON_PATHS)
    /\ r_home_fetches' = IF r_html.given THEN 0 ELSE 1
    /\ r_pc' = "loop"
    /\ UNCHANGED <<FEEDPARSER_AVAILABLE, r_max_items, r_html, r_home, r_feeds, r_idx,
                   r_fetched, r_result, nonRss>>

\* the break of the loop over feed_urls_to_check
RssLoopBreaks == r_result.found /\ Len(r_result.items) >= r_max_items

\* one iteration of "for feed_url in feed_urls_to_check"
RssTryFeed ==
    /\ r_pc = "loop"
    /\ r_idx <= Len(r_queue)
    /\ ~RssLoopBreaks
    /\ LET feed_url == r_queue[r_idx]
           feed_data == fetch_and_parse_feed(r_feeds[feed_url], FEEDPARSER_AVAILABLE)
       IN  /\ r_fetched' = Append(r_fetched, feed_url)
           /\ r_result' =
                IF feed_data.parsed
                THEN [r_result EXCEPT
                        !.found = TRUE,
                        !.feed_urls = Append(@, feed_url),
                        !.title = IF @ = "" THEN feed_data.title ELSE @,
                        !.feed_type = IF @ = "None" THEN feed_data.type ELSE @,
                        !.items = AppendItems(@, feed_data.items, r_max_items)]
                ELSE r_result
    /\ r_idx' = r_idx + 1
    /\ UNCHANGED <<FEEDPARSER_AVAILABLE, r_max_items, r_html, r_home, r_feeds, r_queue,
                   r_home_fetches, r_pc, nonRss>>

\* after the loop: total_items, the warning when nothing was found, return
RssDiscoverReturn ==
    /\ r_pc = "loop"
    /\ r_idx > Len(r_queue) \/ RssLoopBreaks
    /\ r_result' = [r_result EXCEPT
                      !.total_items = Len(r_result.items),
                      !.warnings = IF r_result.found THEN @
                                   ELSE Append(@, "No RSS or Atom feed found at common locations")]
    /\ r_pc' = "done"
    /\ UNCHANGED <<FEEDPARSER_AVAILABLE, r_max_items, r_html, r_home, r_feeds, r_queue,
                   r_idx, r_fetched, r_home_fetches, nonRss>>

(* RSSDiscovery: the inputs of the model *)
MaxFeedItems == 3
MaxFeedEntries == 2

FeedEntries == <<"/blog/one", "/blog/two">>

FeedDoc(kind, format, title, items) ==
    [kind |-> kind, format |-> format, title |-> title, items |-> items]
NoFeedDoc == FeedDoc("none", "None", "", <<>>)

FeedDocs ==
    { NoFeedDoc, FeedDoc("status", "None", "", <<>>), FeedDoc("html", "None", "", <<>>),
      FeedDoc("broken", "None", "", <<>>) }
    \cup { FeedDoc("feed", "rss", "", Take(FeedEntries, n)) : n \in 0..MaxFeedEntries }
    \cup { FeedDoc("feed", "atom", "News", Take(FeedEntries, n)) : n \in 1..MaxFeedEntries }

FeedLink(feed_type, href) == [feed_type |-> feed_type, href |-> href]
HtmlLinkLists ==
    { <<>>, <<FeedLink(TRUE, "/custom.xml")>>,
      <<FeedLink(FALSE, "/style.css"), FeedLink(TRUE, "/rss"), FeedLink(TRUE, ""),
        FeedLink(TRUE, "/custom.xml"), FeedLink(TRUE, "/rss")>> }

\* the candidate URLs whose answer varies; every other URL gives no response
LiveFeedUrls == {"/custom.xml", "/feed", "/rss"}
AllFeedUrls == Range(RSS_COMMON_PATHS) \cup {"/custom.xml"}

RssStart ==
    /\ r_pc = "start"
    /\ r_queue = <<>>
    /\ r_idx = 1
    /\ r_fetched = <<>>
    /\ r_home_fetches = 0
    /\ r_result = EmptyFeedResult

RssInit ==
    /\ FEEDPARSER_AVAILABLE \in BOOLEAN
    /\ r_max_items \in 0..MaxFeedItems
    /\ \/ /\ r_html \in {[given |-> TRUE, links |-> l] : l \in HtmlLinkLists}
          /\ r_home = [status |-> 0, links |-> <<>>]
       \/ /\ r_html = [given |-> FALSE, links |-> <<>>]
          /\ r_home \in {[status |-> 0, links |-> <<>>], [status |-> 404, links |-> <<>>],
                         [status |-> 200, links |-> <<FeedLink(TRUE, "/custom.xml")>>]}
    /\ \E live \in [LiveFeedUrls -> FeedDocs] :
         r_feeds = [u \in AllFeedUrls |-> IF u \in LiveFeedUrls THEN live[u] ELSE NoFeedDoc]
    /\ RssStart

RssIdle ==
    /\ FEEDPARSER_AVAILABLE = TRUE
    /\ r_max_items = 0
    /\ r_html = [given |-> TRUE, links |-> <<>>]
    /\ r_home = [status |-> 0, links |-> <<>>]
    /\ r_feeds = [u \in AllFeedUrls |-> NoFeedDoc]
    /\ RssStart

LaterIdle == ProductIdle /\ BatchIdle /\ ScanIdle /\ RssIdle

----------------------------------------------------------------------------
(* URLSampler: the inputs of the model *)

MaxSitemapUrls == 2
MaxRssUrls == 1
MaxLinks == 1
MaxPerTypeMax == 2

U_article  == <<"/blog/", "my-post">>
U_product  == <<"/p/">>
U_category == <<"/c/">>
U_skipped  == <<"/shop/", "/cart">>
U_page     == <<"/about">>

SitemapPool == {U_article, U_product, U_category, U_skipped}
RssPool == {U_article, U_page}

LinkPool ==
    { [href_kind |-> "http", netloc |-> BaseDomain,
       frags |-> <<"/NEWS/", "my-post", "?ref=1">>],
      [href_kind |-> "http", netloc |-> BaseDomain, frags |-> <<"/about">>],
      [href_kind |-> "http", netloc |-> "other.org", frags |-> <<"/p/">>] }

HomepageResponses ==
    { [status |-> 0, links |-> <<>>], [status |-> 404, links |-> <<>>] }
    \cup { [status |-> 200, links |-> l] : l \in SeqsUpTo(LinkPool, MaxLinks) }

SamplerStart ==
    /\ spc = "sitemap"
    /\ sidx = 1
    /\ seen_urls = {}
    /\ crawled_urls = <<>>
    /\ crawl_fetches = 0
    /\ result = EmptySamplerResult

SamplerInit ==
    /\ max_per_type \in 0..MaxPerTypeMax
    /\ sitemap_in \in SeqsUpTo(SitemapPool, MaxSitemapUrls)
    /\ rss_in \in SeqsUpTo(RssPool, MaxRssUrls)
    /\ homepage \in HomepageResponses
    /\ SamplerStart

CallUrls == {U_article, U_product, U_skipped}

LogInit ==
    /\ c_url = <<>>
    /\ c_ret = "none"
    /\ classify_log = [u \in CallUrls |-> {}]
    /\ date_log = [d \in CallDates |-> {}]

SamplerNext ==
    \/ SampleSitemapStep
    \/ SampleRssStep
    \/ SampleCrawlCheck
    \/ SampleCrawlStep
    \/ SampleReturn

Init == SamplerInit /\ LogInit /\ SitemapIdle /\ SchemaIdle /\ SeoIdle /\ ScoreIdle /\ ArticleIdle
    /\ LaterIdle

Next == SamplerNext

\* SpecSampler: one run of URLSampler.sample on every input of the pools
Spec == Init /\ [][Next]_vars

----------------------------------------------------------------------------
\* C1: in every result returned by sample(), each of articles, products,
\* categories and pages holds at most max_per_type entries.
SamplerCapInvariant ==
    spc = "done" =>
        /\ Len(result.articles) <= max_per_type
        /\ Len(result.products) <= max_per_type
        /\ Len(result.categories) <= max_per_type
        /\ Len(result.pages) <= max_per_type

\* C1 witness: a returned result from which the trim has dropped an article
\* (more articles were collected than max_per_type allows).
SamplerCapWitness ==
    /\ spc = "done"
    /\ max_per_type >= 1
    /\ Len(result.articles) = max_per_type
    /\ Cardinality({i \in 1..Len(result.all_urls) :
                      result.all_urls[i].url_type = "article"}) > max_per_type

----------------------------------------------------------------------------
(* Direct calls of the side-effect-free helpers *)

MaxFragments == 2

AllUrls == SeqsUpTo(Fragments, MaxFragments)

\* sampler._classify_url(c_url), the call whose argument Init has drawn
ClassifyUrl ==
    /\ c_ret = "none"
    /\ c_ret' = classify_url(c_url)
    /\ UNCHANGED <<samplerVars, c_url, classify_log, date_log, nonSampler>>

\* sampler._classify_url(url) between the steps of sample() runs
ClassifyCall(u) ==
    /\ c_url' = u
    /\ c_ret' = classify_url(u)
    /\ classify_log' = [classify_log EXCEPT ![u] = @ \cup {classify_url(u)}]
    /\ UNCHANGED <<samplerVars, date_log, nonSampler>>

\* validator._is_valid_date_format(date_str)
DateFormatCall(d) ==
    /\ date_log' = [date_log EXCEPT ![d] = @ \cup {is_valid_date_format(d)}]
    /\ UNCHANGED <<samplerVars, c_url, c_ret, classify_log, nonSampler>>

\* a further sample() call on the same sampler
SampleAgain ==
    /\ spc = "done"
    /\ sitemap_in' \in SeqsUpTo(CallUrls, 1)
    /\ spc' = "sitemap"
    /\ sidx' = 1
    /\ seen_urls' = {}
    /\ crawled_urls' = <<>>
    /\ crawl_fetches' = 0
    /\ result' = EmptySamplerResult
    /\ UNCHANGED <<max_per_type, rss_in, homepage, logVars, nonSampler>>

SamplerIdle ==
    /\ max_per_type = 0
    /\ sitemap_in = <<>>
    /\ rss_in = <<>>
    /\ homepage = [status |-> 0, links |-> <<>>]
    /\ SamplerStart

InitClassify ==
    /\ SamplerIdle
    /\ c_url \in AllUrls
    /\ c_ret = "none"
    /\ classify_log = [u \in CallUrls |-> {}]
    /\ date_log = [d \in CallDates |-> {}]
    /\ SitemapIdle
    /\ SchemaIdle
    /\ SeoIdle
    /\ ScoreIdle
    /\ ArticleIdle
    /\ LaterIdle

NextClassify == ClassifyUrl

\* SpecClassify: _classify_url applied to every URL of at most MaxFragments fragments
SpecClassify == InitClassify /\ [][NextClassify]_vars

InitPurity ==
    /\ max_per_type = 1
    /\ sitemap_in \in SeqsUpTo(CallUrls, 1)
    /\ rss_in = <<>>
    /\ homepage = [status |-> 0, links |-> <<>>]
    /\ SamplerStart
    /\ LogInit
    /\ SitemapIdle
    /\ SchemaIdle
    /\ SeoIdle
    /\ ScoreIdle
    /\ ArticleIdle
    /\ LaterIdle

NextPurity ==
    \/ SamplerNext
    \/ SampleAgain
    \/ \E u \in CallUrls : ClassifyCall(u)
    \/ \E d \in CallDates : DateFormatCall(d)

\* SpecPurity: direct helper calls interleaved with the steps of sample() runs
SpecPurity == InitPurity /\ [][NextPurity]_vars

----------------------------------------------------------------------------
\* C2: _classify_url returns the type of the first matching pattern set in the
\* order skip (other), product, article, category, page, and other when none
\* matches.
ClassificationPrecedence ==
    c_ret # "none" =>
        LET skip     == AnyPatternMatches(SKIP_PATTERNS, c_url)
            product  == AnyPatternMatches(PRODUCT_PATTERNS, c_url)
            article  == AnyPatternMatches(ARTICLE_PATTERNS, c_url)
            category == AnyPatternMatches(CATEGORY_PATTERNS, c_url)
            page     == AnyPatternMatches(PAGE_PATTERNS, c_url)
        IN  /\ skip => c_ret = "other"
            /\ (~skip /\ product) => c_ret = "product"
            /\ (~skip /\ ~product /\ article) => c_ret = "article"
            /\ (~skip /\ ~product /\ ~article /\ category) => c_ret = "category"
            /\ (~skip /\ ~product /\ ~article /\ ~category /\ page) => c_ret = "page"
            /\ (~skip /\ ~product /\ ~article /\ ~category /\ ~page) => c_ret = "other"

\* C2 witness: a URL that matches a skip pattern and a product pattern has
\* been classified other.
ClassificationPrecedenceWitness ==
    /\ c_ret = "other"
    /\ AnyPatternMatches(SKIP_PATTERNS, c_url)
    /\ AnyPatternMatches(PRODUCT_PATTERNS, c_url)

----------------------------------------------------------------------------
(* SpecSitemap: one run of SitemapDiscovery.discover on every site of the pools *)

InitSitemap == SitemapInit /\ SamplerIdle /\ LogInit /\ SchemaIdle /\ SeoIdle /\ ScoreIdle /\ ArticleIdle
    /\ LaterIdle

NextSitemap ==
    \/ DiscoverStart
    \/ DiscoverStep
    \/ DiscoverReturn

SpecSitemap == InitSitemap /\ [][NextSitemap]_vars

IsFetchedOk(u) ==
    u \in processed_sitemaps /\ site_docs[u].kind \in {"sitemapindex", "urlset"}

RECURSIVE SumUrlEntries(_)
SumUrlEntries(S) ==
    IF S = {} THEN 0
    ELSE LET u == CHOOSE x \in S : TRUE
         IN  (IF site_docs[u].kind = "urlset" THEN Len(site_docs[u].urls) ELSE 0)
             + SumUrlEntries(S \ {u})

CapsNotReached ==
    /\ Cardinality(processed_sitemaps) < max_sitemaps
    /\ Len(sm_result.urls) < max_urls

\* C4: every child listed by a fetched sitemap index is enqueued (or was
\* fetched already) and, unless a cap is reached, has been fetched on return;
\* then found is true, sitemap_urls holds the index and every successfully
\* fetched child, and total_urls is the number of <url> entries of all
\* fetched urlsets.
SitemapIndexRecursion ==
    /\ \A u \in processed_sitemaps :
         site_docs[u].kind = "sitemapindex" =>
           \A i \in 1..Len(site_docs[u].sitemaps) :
             LET child == site_docs[u].sitemaps[i]
             IN  /\ child \in processed_sitemaps \cup Range(sitemap_queue)
                 /\ (dpc = "done" /\ CapsNotReached) => child \in processed_sitemaps
    /\ (dpc = "done" /\ CapsNotReached) =>
         /\ Range(sm_result.sitemap_urls) = {u \in processed_sitemaps : IsFetchedOk(u)}
         /\ sm_result.found = (sm_result.sitemap_urls # <<>>)
         /\ sm_result.total_urls = SumUrlEntries(processed_sitemaps)

\* C4 witness: the scenario of the claim: an index with two children, both
\* urlsets of MaxUrlsPerSet entries, all three fetched.
SitemapIndexRecursionWitness ==
    /\ dpc = "done"
    /\ CapsNotReached
    /\ site_docs[IndexPath] = IndexDoc(<<ChildA, ChildB>>)
    /\ site_docs[ChildA] = Urlset(ChildA, MaxUrlsPerSet)
    /\ site_docs[ChildB] = Urlset(ChildB, MaxUrlsPerSet)
    /\ site_docs["/sitemap.xml"].kind = "status_404"
    /\ sm_result.found
    /\ sm_result.total_urls = 2 * MaxUrlsPerSet
    /\ Len(sm_result.sitemap_urls) = 3

\* C5: at most max_sitemaps sitemap documents are processed and at most
\* max_urls page URLs collected, in every state of discover(); on return
\* total_urls = len(urls) <= max_urls and len(sitemap_urls) <= max_sitemaps.
SitemapCaps ==
    /\ Cardinality(processed_sitemaps) <= max_sitemaps
    /\ Len(fetched) <= max_sitemaps
    /\ Len(sm_result.urls) <= max_urls
    /\ dpc = "done" =>
         /\ sm_result.total_urls = Len(sm_result.urls)
         /\ sm_result.total_urls <= max_urls
         /\ Len(sm_result.sitemap_urls) <= max_sitemaps

\* C5 witness: a run that returns with both caps reached: candidates left in
\* the queue and <url> entries dropped.
SitemapCapsWitness ==
    /\ dpc = "done"
    /\ Cardinality(processed_sitemaps) = max_sitemaps
    /\ sitemap_queue # <<>>
    /\ Len(sm_result.urls) = max_urls
    /\ SumUrlEntries(processed_sitemaps) > max_urls

----------------------------------------------------------------------------
(* SchemaValidator.validate() over every page of the bounded block pool *)

InitSchema == SchemaInit /\ SamplerIdle /\ LogInit /\ SitemapIdle /\ SeoIdle /\ ScoreIdle /\ ArticleIdle
    /\ LaterIdle

NextSchema == ValidateStart \/ ValidateBlock \/ ValidateReturn

SpecSchema == InitSchema /\ [][NextSchema]_vars

\* the weights of the types the result records, before deductions
CoverageCredit(res) ==
    20 + (IF res.breadcrumb_present THEN 15 ELSE 0)
       + (IF res.organization_present THEN 15 ELSE 0)
       + (IF res.website_present THEN 10 ELSE 0)
       + (IF res.article_schema_valid THEN 20 ELSE 0)
       + (IF res.product_schema_valid THEN 20 ELSE 0)

\* C6: every result validate() returns for a page with at least one JSON-LD
\* block has coverage_score = min(100, max(0, 20 + 15 breadcrumb + 15
\* organization + 10 website + 20 valid article + 20 valid product
\* - 5 * errors - 2 * warnings)), and every returned result has
\* 0 <= coverage_score <= 100.
CoverageScoreFormula ==
    vpc = "done" =>
        /\ v_result.coverage_score >= 0
        /\ v_result.coverage_score <= 100
        /\ Len(schemas_in) >= 1 =>
             v_result.coverage_score =
                Min2(100, Max2(0, CoverageCredit(v_result)
                                    - 5 * Len(v_result.errors)
                                    - 2 * Len(v_result.warnings)))

\* C6 witness: a returned result whose deductions exceed its credit, so the
\* floor at 0 is what the score shows.
CoverageScoreWitness ==
    /\ vpc = "done"
    /\ Len(schemas_in) >= 1
    /\ CoverageCredit(v_result) - 5 * Len(v_result.errors)
         - 2 * Len(v_result.warnings) < 0
    /\ v_result.coverage_score = 0

----------------------------------------------------------------------------
(* TechnicalSEO.analyze() and OnPageSEO.analyze() on one page *)

InitSeo ==
    SeoInit /\ SamplerIdle /\ LogInit /\ SitemapIdle /\ SchemaIdle /\ ScoreIdle /\ ArticleIdle
    /\ LaterIdle

NextSeo == AnalyzeFetch \/ AnalyzeFollowRedirect \/ AnalyzeChecks \/ OnPageAnalyze

SpecSeo == InitSeo /\ [][NextSeo]_vars

\* the penalty tables as the specification states them
StatedIssuePenalty(impact) ==
    CASE impact = "CRITICAL" -> 25 [] impact = "HIGH" -> 15
      [] impact = "MEDIUM" -> 10 [] impact = "LOW" -> 5
StatedWarningPenalty(impact) ==
    CASE impact = "HIGH" -> 10 [] impact = "MEDIUM" -> 5 [] impact = "LOW" -> 2

RECURSIVE StatedPenalties(_, _)
StatedPenalties(entries, kind) ==
    IF entries = <<>> THEN 0
    ELSE (IF kind = "issue" THEN StatedIssuePenalty(Head(entries).impact)
          ELSE StatedWarningPenalty(Head(entries).impact))
         + StatedPenalties(Tail(entries), kind)

ImpactsStated(res) ==
    /\ \A i \in 1..Len(res.issues) :
         res.issues[i].impact \in {"CRITICAL", "HIGH", "MEDIUM", "LOW"}
    /\ \A i \in 1..Len(res.warnings) :
         res.warnings[i].impact \in {"HIGH", "MEDIUM", "LOW"}

ScoreAsStated(res) ==
    ImpactsStated(res) =>
        res.score = Max2(0, 100 - StatedPenalties(res.issues, "issue")
                                - StatedPenalties(res.warnings, "warning"))

\* C7: every result TechnicalSEO.analyze and OnPageSEO.analyze return, the
\* results for a page that could not be fetched included, has
\* score = max(0, 100 - penalties), an issue costing 25/15/10/5 for
\* CRITICAL/HIGH/MEDIUM/LOW and a warning 10/5/2 for HIGH/MEDIUM/LOW.
ScoreIsHundredMinusPenalties ==
    /\ tpc = "done" => ScoreAsStated(t_result)
    /\ opc = "done" => ScoreAsStated(o_result)

----------------------------------------------------------------------------
(* _calculate_score before and after one more entry *)

InitScore ==
    ScoreInit /\ SamplerIdle /\ LogInit /\ SitemapIdle /\ SchemaIdle /\ SeoIdle /\ ArticleIdle
    /\ LaterIdle

NextScore == ScoreCompute \/ ScoreAppendAndRecompute

SpecScore == InitScore /\ [][NextScore]_vars

\* C8: appending one more issue of impact CRITICAL to the lists of a
\* TechnicalSEOResult and recomputing gives a strictly lower score, or the
\* same score when it was already at the floor 0; appending any issue or
\* warning never raises the score.
ScoreMonotonicity ==
    score_pc = "done" =>
        /\ score_after <= score_before
        /\ (score_extra.kind = "issue" /\ score_extra.impact = "CRITICAL") =>
              \/ score_after < score_before
              \/ score_before = 0 /\ score_after = 0

\* C8 witness: a CRITICAL issue appended to a result that scored between 1
\* and 24, so the score drops to the floor by less than 25.
ScoreMonotonicityWitness ==
    /\ score_pc = "done"
    /\ score_extra.kind = "issue"
    /\ score_extra.impact = "CRITICAL"
    /\ score_before > 0
    /\ score_before < 25
    /\ score_after = 0

----------------------------------------------------------------------------
(* ArticleExtractor.extract_single() on one URL *)

InitArticle ==
    ArticleInit /\ SamplerIdle /\ LogInit /\ SitemapIdle /\ SchemaIdle /\ SeoIdle
    /\ ScoreIdle /\ LaterIdle

NextArticle == ExtractSingle

SpecArticle == InitArticle /\ [][NextArticle]_vars

IsArticleFamily(item) == item.is_dict /\ item.type \in EXTRACTOR_ARTICLE_TYPES

\* the JSON-LD objects in document order, members of @graph and lists included
RECURSIVE AllItems(_)
AllItems(jsonld) ==
    IF jsonld = <<>> THEN <<>> ELSE Head(jsonld).items \o AllItems(Tail(jsonld))

\* the objects the extractor looks at: with extruct the top-level objects up
\* to the first value that is no object, without it every object
RECURSIVE ReachedItems(_, _)
ReachedItems(extruct, jsonld) ==
    IF jsonld = <<>> THEN <<>>
    ELSE LET h == Head(jsonld)
             rest == ReachedItems(extruct, Tail(jsonld))
         IN  IF extruct
             THEN CASE h.kind = "scalar" -> <<>>
                    [] h.kind = "object" -> h.items \o rest
                    [] OTHER -> rest
             ELSE SelectSeq(h.items, LAMBDA i : i.is_dict) \o rest

HeadlineOrName(item) ==
    IF item.headline.found /\ item.headline.text # <<>> THEN item.headline.text
    ELSE IF item.name.found THEN item.name.text ELSE <<>>

FirstFamilyTitle ==
    LET family == SelectSeq(ReachedItems(EXTRUCT_AVAILABLE, a_page.jsonld), IsArticleFamily)
    IN  IF family = <<>> THEN <<>> ELSE HeadlineOrName(family[1])

ArticleFrom200 == a_pc = "done" /\ a_ret = "article" /\ a_response.status = 200

\* C9 as stated: when the page has an Article-family JSON-LD block with a
\* non-empty headline, article.title is that headline whatever <title> and
\* <h1> contain; when no block gives a title, the title is the <title> text
\* (or the <h1>), and a page with no JSON-LD and a <title> yields the
\* <title> text.
JsonLdHeadlineAlwaysWins ==
    ArticleFrom200 =>
        LET items == AllItems(a_page.jsonld)
            headlines ==
              { items[i].headline.text : i \in
                  { k \in 1..Len(items) : /\ IsArticleFamily(items[k])
                                          /\ items[k].headline.found
                                          /\ items[k].headline.text # <<>> } }
            named ==
              { k \in 1..Len(items) : /\ IsArticleFamily(items[k])
                                      /\ HeadlineOrName(items[k]) # <<>> }
            fallbacks ==
              (IF a_page.title_tag.found THEN {Strip(a_page.title_tag.text)} ELSE {})
              \cup (IF a_page.h1s # <<>> THEN {Strip(a_page.h1s[1])} ELSE {})
        IN  IF headlines # {} THEN a_article.title \in headlines
            ELSE named = {} =>
                 /\ fallbacks # {} => a_article.title \in fallbacks
                 /\ (a_page.jsonld = <<>> /\ a_page.title_tag.found) =>
                        a_article.title = Strip(a_page.title_tag.text)

\* C9: for a page fetched with status 200, article.title is the headline (or,
\* the headline being empty, the name) of the first Article-family JSON-LD
\* block the extractor reaches, whatever <title> and <h1> contain; when that
\* gives nothing, it is the stripped text of the first <h1> if the page has
\* one, else the stripped <title> text, else empty.
JsonLdTitlePrecedence ==
    ArticleFrom200 =>
        a_article.title =
            IF FirstFamilyTitle # <<>> THEN FirstFamilyTitle
            ELSE IF a_page.h1s # <<>> THEN Strip(a_page.h1s[1])
            ELSE IF a_page.title_tag.found THEN Strip(a_page.title_tag.text)
            ELSE <<>>

\* C9 witness: the first Article-family block is a WebPage without headline
\* or name, a later Article has a headline, and the page has both a <title>
\* and an <h1>: the title is the <h1> text.
JsonLdTitlePrecedenceWitness ==
    /\ ArticleFrom200
    /\ Len(a_page.jsonld) = 2
    /\ a_page.jsonld[1].items = <<BareWebPage>>
    /\ a_page.jsonld[2].items = <<ArticleItem>>
    /\ a_page.title_tag.found
    /\ Strip(a_page.title_tag.text) = TitleB
    /\ a_page.h1s = <<HeadingC>>
    /\ a_article.has_schema
    /\ a_article.title = HeadingC

ThinWarnings(article) ==
    { i \in 1..Len(article.warnings) : article.warnings[i].text = "Thin content" }

ThinFlagMatchesCount(article) ==
    /\ article.word_count < 300 <=> ThinWarnings(article) # {}
    /\ \A i \in ThinWarnings(article) : article.warnings[i].n = article.word_count

\* C10 as stated: every record extract_single produces with word_count < 300
\* carries a "Thin content" warning with that count, and no record with
\* word_count >= 300 carries one.
ThinContentAlwaysFlagged ==
    (a_pc = "done" /\ a_ret = "article") => ThinFlagMatchesCount(a_article)

\* C10: every record extract_single builds from a 200 response carries a
\* "Thin content" warning with its word count exactly when word_count < 300;
\* a record returned for another status has word_count 0 and no warning.
ThinContentFlaggedWhenFetched ==
    (a_pc = "done" /\ a_ret = "article") =>
        IF a_article.status_code = 200
        THEN ThinFlagMatchesCount(a_article)
        ELSE a_article.word_count = 0 /\ a_article.warnings = <<>>

\* C10 witness: a fetched page of 299 words, flagged with that count.
ThinContentWitness ==
    /\ ArticleFrom200
    /\ a_article.word_count = 299
    /\ \E i \in ThinWarnings(a_article) : a_article.warnings[i].n = 299

----------------------------------------------------------------------------
InitExtractSingle ==
    /\ EXTRUCT_AVAILABLE \in BOOLEAN
    /\ \/ /\ \/ /\ a_response \in {[kind |-> "none", status |-> 0],
                                       [kind |-> "raises", status |-> 0]}
                       \cup {[kind |-> "response", status |-> c] : c \in {301, 404, 500}}
                /\ a_page = BlankPage
             \/ /\ a_response = [kind |-> "response", status |-> 200]
                /\ a_page \in ArticlePages(EXTRUCT_AVAILABLE)
          /\ ArticleStart
          /\ ProductIdle
       \/ /\ ArticleCallIdle
          /\ ProductInit
    /\ BatchIdle /\ ScanIdle /\ RssIdle
    /\ SamplerIdle /\ LogInit /\ SitemapIdle /\ SchemaIdle /\ SeoIdle /\ ScoreIdle

NextExtractSingle == ExtractSingle \/ ProductExtractSingle

\* SpecExtractSingle: one extract_single call of the article extractor or of
\* the product extractor, on every answer of the server
SpecExtractSingle == InitExtractSingle /\ [][NextExtractSingle]_vars

\* the record the extractors build for a response that is not a 200
IsNon200Record(ret, record, response) ==
    /\ ret # "None"
    /\ record.indexable = FALSE
    /\ record.status_code = response.status
    /\ \E i \in 1..Len(record.issues) :
         record.issues[i] = Msg("Non-200 status code", response.status)

\* C11: whenever the fetch of extract_single (article or product extractor)
\* answers with a status code other than 200, be it 3xx, 4xx or 5xx, the call
\* returns a record, not None, with indexable False, status_code set to that
\* code, and an issue naming the code.
Non200YieldsFlaggedRecord ==
    /\ (a_pc = "done" /\ a_response.kind = "response" /\ a_response.status # 200)
         => IsNon200Record(a_ret, a_article, a_response)
    /\ (p_pc = "done" /\ p_response.kind = "response" /\ p_response.status # 200)
         => IsNon200Record(p_ret, p_product, p_response)

----------------------------------------------------------------------------
InitBatch ==
    /\ BatchInit
    /\ ArticleCallIdle /\ ProductIdle /\ ScanIdle /\ RssIdle
    /\ SamplerIdle /\ LogInit /\ SitemapIdle /\ SchemaIdle /\ SeoIdle /\ ScoreIdle

NextBatch == ArticleBatchStep \/ ProductBatchStep \/ BatchReturn

\* SpecBatch: one extract_from_urls call of either extractor on every list of
\* at most MaxBatchUrls URLs of the pools
SpecBatch == InitBatch /\ [][NextBatch]_vars

BatchRecords == IF b_kind = "article" THEN b_result.articles ELSE b_result.products

\* min(len(urls), max_n)
BatchLimit == Min2(Len(b_urls), b_max)

FetchFailed(input) == input.response.kind \in {"none", "raises"}

\* the URLs, in input order, of the inputs handled so far that the site answered
\* with a response extract_single builds a record from
AnsweredSoFar ==
    LET handled == SubSeq(b_urls, 1, b_i - 1)
        kept == SelectSeq(handled, LAMBDA x : ~FetchFailed(x) /\ ResponseTruthy(x.response))
    IN  [k \in 1..Len(kept) |-> kept[k].url]

\* C12: in extract_from_urls of both extractors each of the first max_n URLs is
\* fetched at most once (exactly once by the time of return) and no URL beyond
\* them is fetched; a URL whose fetch fails or raises adds no record and the
\* loop goes on with the next URL; the records are in input order, and on
\* return total_found = len(records) <= min(len(urls), max_n).
BatchFetchOnceInOrder ==
    /\ \A i \in 1..Len(b_urls) :
         /\ b_fetches[i] <= 1
         /\ i > BatchLimit => b_fetches[i] = 0
         /\ (b_pc = "done" /\ i <= BatchLimit) => b_fetches[i] = 1
    /\ \A k \in 1..Len(BatchRecords) :
         \A i \in 1..Len(b_urls) :
           FetchFailed(b_urls[i]) => BatchRecords[k].url # b_urls[i].url
    /\ [k \in 1..Len(BatchRecords) |-> BatchRecords[k].url] = AnsweredSoFar
    /\ Len(BatchRecords) <= BatchLimit
    /\ b_pc = "done" => b_result.total_found = Len(BatchRecords)

\* a returned batch in which a failing and a raising URL precede one that
\* yields a record, and max_n cuts the list
BatchWitness ==
    /\ b_pc = "done"
    /\ Len(b_urls) = 3
    /\ b_max = 2
    /\ b_urls[1].response.kind \in {"none", "raises"}
    /\ b_urls[2].response = Answer(200)
    /\ b_urls[3].response = Answer(200)
    /\ b_result.total_found = 1

----------------------------------------------------------------------------
InitScan ==
    /\ ScanInit
    /\ ArticleIdle /\ ProductIdle /\ BatchIdle /\ RssIdle
    /\ SamplerIdle /\ LogInit /\ SitemapIdle /\ SchemaIdle /\ SeoIdle /\ ScoreIdle

NextScan ==
    \/ ScanFetchHomepage
    \/ ScanSitemapDiscovery
    \/ ScanRssDiscovery
    \/ ScanSample
    \/ ScanArticles
    \/ ScanProducts
    \/ ScanSchemaValidation
    \/ ScanTechnical
    \/ ScanOnPage
    \/ ScanSummary
    \/ QuickScan
    \/ ScanArticlesOnly
    \/ ScanProductsOnly

\* SpecScan: one call of an entry point of ContentScanner on every homepage of
\* HomeAnswers and every result the sub-scanners return
SpecScan == InitScan /\ [][NextScan]_vars

\* C13: no exception propagates out of a public entry point: whatever internal
\* step fails, scan and quick_scan (and with them SchemaValidator.validate,
\* which they call) return a result or an {'error': ...} mapping.
NoExceptionLeavesEntryPoint == k_pc # "raised"

RECURSIVE IsSubsequence(_, _)
IsSubsequence(a, b) ==
    IF a = <<>> THEN TRUE
    ELSE IF b = <<>> THEN FALSE
    ELSE IF Head(a) = Head(b) THEN IsSubsequence(Tail(a), Tail(b))
    ELSE IsSubsequence(a, Tail(b))

\* the sub-scanner calls of the phases of scan(), in the stated order
ScanPhaseCalls ==
    <<"sitemap_discovery.discover", "rss_discovery.discover", "url_sampler.sample",
      "article_extractor.extract_from_urls", "product_extractor.extract_from_urls",
      "schema_validator.validate", "technical_seo.analyze", "onpage_seo.analyze",
      "_generate_summary">>

\* the positions of scan(), in order
ScanPositions ==
    <<"fetch", "sitemap", "rss", "sample", "articles", "products", "schema",
      "technical", "onpage", "summary", "returned">>

PositionIndex(pc) == CHOOSE i \in 1..Len(ScanPositions) : ScanPositions[i] = pc

\* the phases run so far were run once each and in the stated order; a phase
\* whose call was made has returned before the next position is reached
ScanPhasesOrdered ==
    /\ IsSubsequence(SelectSeq(k_calls, LAMBDA c : c # "http_client.get"), ScanPhaseCalls)
    /\ \A i \in 1..Len(k_calls) : \A j \in 1..Len(k_calls) : k_calls[i] = k_calls[j] => i = j
    /\ k_pc \in Range(ScanPositions) =>
         /\ PositionIndex(k_pc) > 2 <=> k_results.discovery_sitemap # EmptyDict
         /\ PositionIndex(k_pc) > 3 <=> k_results.discovery_rss # EmptyDict
         /\ PositionIndex(k_pc) > 4 <=> k_results.discovery_sampled_urls # EmptyDict
         /\ PositionIndex(k_pc) > 5 <=> k_results.articles # EmptyDict
         /\ PositionIndex(k_pc) > 6 <=> k_results.products # EmptyDict
         /\ PositionIndex(k_pc) > 7 <=> k_results.schema_validation # EmptyDict
         /\ PositionIndex(k_pc) > 8 <=> k_results.technical_seo # EmptyDict
         /\ PositionIndex(k_pc) > 9 <=> k_results.onpage_seo # EmptyDict
         /\ PositionIndex(k_pc) > 10 <=> k_results.summary # EmptyDict

\* an extractor that got no sampled URL is not called and its result is empty
EmptyExtractionWhenNoUrls ==
    /\ (k_results.articles # EmptyDict
        /\ Take(k_sampled.articles, k_max_articles) = <<>>) =>
         /\ k_results.articles.total_found = 0
         /\ \A i \in 1..Len(k_calls) : k_calls[i] # "article_extractor.extract_from_urls"
    /\ (k_results.products # EmptyDict
        /\ Take(k_sampled.products, k_max_products) = <<>>) =>
         /\ k_results.products.total_found = 0
         /\ \A i \in 1..Len(k_calls) : k_calls[i] # "product_extractor.extract_from_urls"

\* C14: scan() runs its phases in the order sitemap discovery, RSS discovery,
\* sampling, article extraction, product extraction, schema validation,
\* technical SEO, on-page SEO, summary, each at most once and none before the
\* previous one has returned; an extractor without sampled URLs gives an empty
\* result with total_found 0; and every scan goes on to the summary, whatever
\* discovery found and whether or not the homepage could be fetched.
ScanPhasesInOrderToSummary ==
    k_entry = "scan" =>
      /\ k_pc \in Range(ScanPositions)
      /\ ScanPhasesOrdered
      /\ EmptyExtractionWhenNoUrls

\* the score the summary reads from a result dict, 0 when the key is missing
ScoreRead(d, key) == IF key \in DOMAIN d THEN d[key] ELSE 0

\* 35*technical + 35*onpage + 30*coverage: a hundred times the weighted sum
StatedWeightedSum ==
    35 * ScoreRead(k_results.technical_seo, "score")
    + 35 * ScoreRead(k_results.onpage_seo, "score")
    + 30 * ScoreRead(k_results.schema_validation, "coverage_score")

\* C15: the summary of scan() has overall_score = round(0.35*technical score +
\* 0.35*on-page score + 0.30*schema coverage score), a whole number nearest to
\* the weighted sum, where a missing score (schema validation skipped because
\* the homepage could not be fetched) counts as 0; and 0 <= overall_score <= 100.
OverallScoreWeighted ==
    (k_entry = "scan" /\ k_pc = "returned") =>
      /\ 100 * k_results.summary.overall_score - StatedWeightedSum \in -50..50
      /\ k_results.summary.overall_score \in 0..100
      /\ k_results.summary.summary.scores.schema_coverage
           = ScoreRead(k_results.schema_validation, "coverage_score")

\* a returned scan whose schema validation was skipped and whose other scores
\* are not both 0
OverallScoreWitness ==
    /\ k_entry = "scan" /\ k_pc = "returned"
    /\ "error" \in DOMAIN k_results.schema_validation
    /\ k_results.technical_seo.score = 85
    /\ k_results.onpage_seo.score = 100
    /\ k_results.summary.overall_score = 65

Has(name) == \E i \in 1..Len(k_calls) : k_calls[i] = name

Finished == k_pc \in {"returned", "raised"}

\* quick_scan: one page only
QuickScanFrame ==
    (k_entry = "quick_scan" /\ Finished) =>
      /\ ~Has("sitemap_discovery.discover") /\ ~Has("rss_discovery.discover")
      /\ ~Has("url_sampler.sample")
      /\ ~Has("article_extractor.extract_from_urls")
      /\ ~Has("product_extractor.extract_from_urls")
      /\ IF ~ResponseTruthy(k_home)
         THEN k_calls = <<"http_client.get">> /\ DOMAIN k_results = {"error"}
         ELSE /\ Has("schema_validator.validate")
              /\ k_pc = "returned" =>
                   /\ Has("technical_seo.analyze") /\ Has("onpage_seo.analyze")
                   /\ DOMAIN k_results = {"schema", "technical", "onpage", "summary"}

\* scan_articles_only: discovery, sampling, then the article extractor alone
ArticlesOnlyFrame ==
    (k_entry = "scan_articles_only" /\ Finished) =>
      /\ SubSeq(k_calls, 1, 4) = <<"http_client.get", "sitemap_discovery.discover",
                                   "rss_discovery.discover", "url_sampler.sample">>
      /\ Len(k_calls) > 4 =>
           k_calls = Append(SubSeq(k_calls, 1, 4), "article_extractor.extract_from_urls")
      /\ Has("article_extractor.extract_from_urls")
           <=> Take(k_sampled.articles, k_max_articles) # <<>>

\* scan_products_only: then the product extractor alone
ProductsOnlyExtraction ==
    /\ ~Has("article_extractor.extract_from_urls")
    /\ ~Has("schema_validator.validate")
    /\ ~Has("technical_seo.analyze") /\ ~Has("onpage_seo.analyze")
    /\ Has("url_sampler.sample")
    /\ Has("product_extractor.extract_from_urls")
         <=> Take(k_sampled.products, k_max_products) # <<>>
    /\ k_calls[Len(k_calls)] \in {"url_sampler.sample", "product_extractor.extract_from_urls"}

----------------------------------------------------------------------------
InitRss ==
    /\ RssInit
    /\ ArticleIdle /\ ProductIdle /\ BatchIdle /\ ScanIdle
    /\ SamplerIdle /\ LogInit /\ SitemapIdle /\ SchemaIdle /\ SeoIdle /\ ScoreIdle

NextRss == RssDiscoverStart \/ RssTryFeed \/ RssDiscoverReturn

\* SpecRss: one RSSDiscovery.discover call on every site of the pools
SpecRss == InitRss /\ [][NextRss]_vars

\* does a GET of url give a feed that parses
FeedParses(url) == fetch_and_parse_feed(r_feeds[url], FEEDPARSER_AVAILABLE).parsed

\* the items of the feeds among the first n fetched URLs that parse, in order
RECURSIVE ItemsOfFetched(_)
ItemsOfFetched(n) ==
    IF n = 0 THEN <<>>
    ELSE ItemsOfFetched(n - 1)
         \o (IF FeedParses(r_fetched[n]) THEN r_feeds[r_fetched[n]].items ELSE <<>>)

\* C16: in RSSDiscovery.discover the items are those of the feeds that parse,
\* in candidate order, cut at max_items; len(items) never exceeds max_items;
\* total_items = len(items) on return; and once a feed has been found and
\* max_items items are collected, no further candidate URL is fetched.
RssItemsAccumulateToCap ==
    /\ r_fetched = SubSeq(r_queue, 1, Len(r_fetched))
    /\ r_result.items = Take(ItemsOfFetched(Len(r_fetched)), r_max_items)
    /\ Len(r_result.items) <= r_max_items
    /\ r_pc = "done" => r_result.total_items = Len(r_result.items)
    /\ \A n \in 1..Len(r_fetched) :
         ~ /\ \E m \in 1..(n - 1) : FeedParses(r_fetched[m])
           /\ Len(ItemsOfFetched(n - 1)) >= r_max_items

\* a returned discovery that filled the cap from two feeds and left the
\* remaining candidates unfetched
RssCapWitness ==
    /\ r_pc = "done"
    /\ r_max_items = 3
    /\ Len(r_result.feed_urls) = 2
    /\ Len(r_result.items) = 3
    /\ Len(r_fetched) < Len(r_queue)
    /\ \E n \in 1..Len(r_fetched) : ~FeedParses(r_fetched[n])

----------------------------------------------------------------------------
(* URLSampler.sample: the three sources *)

MaxSourceLinks == 2

U_plain == <<"my-post">>

SourceSitemapPool == {U_article, U_product}
SourceRssPool == {U_article, U_product, U_category, U_page, U_skipped, U_plain}
SourceLinkPool ==
    { [href_kind |-> "http", netloc |-> BaseDomain,
       frags |-> <<"/blog/", "my-post", "?ref=1">>],
      [href_kind |-> "http", netloc |-> BaseDomain, frags |-> <<"/c/">>],
      [href_kind |-> "http", netloc |-> "other.org", frags |-> <<"/p/">>] }

InitSources ==
    /\ max_per_type \in 0..MaxPerTypeMax
    /\ sitemap_in \in SeqsUpTo(SourceSitemapPool, MaxSitemapUrls)
    /\ rss_in \in SeqsUpTo(SourceRssPool, MaxRssUrls)
    /\ homepage \in { [status |-> 0, links |-> <<>>], [status |-> 404, links |-> <<>>] }
                    \cup { [status |-> 200, links |-> l] : l \in SeqsUpTo(SourceLinkPool, MaxSourceLinks) }
    /\ SamplerStart
    /\ LogInit /\ SitemapIdle /\ SchemaIdle /\ SeoIdle /\ ScoreIdle /\ ArticleIdle
    /\ LaterIdle

\* SpecSources: one run of URLSampler.sample with URLs of every kind in the
\* RSS list and the same URLs offered by the sitemap, the feed and the homepage
SpecSources == InitSources /\ [][SamplerNext]_vars

SourceRank(source) ==
    CASE source = "sitemap" -> 1 [] source = "rss" -> 2 [] OTHER -> 3

\* no entry of all_urls from an earlier source follows one from a later source
SourcesInOrder ==
    \A i, j \in 1..Len(result.all_urls) :
      i < j => SourceRank(result.all_urls[i].source) <= SourceRank(result.all_urls[j].source)

\* C17: in URLSampler.sample the sitemap URLs are all processed before any RSS
\* URL, and every RSS URL that is added is recorded with type article and
\* source 'rss' whatever patterns its string matches.
SitemapBeforeRssForcedArticle ==
    /\ spc = "sitemap" => \A e \in Range(result.all_urls) : e.source = "sitemap"
    /\ SourcesInOrder
    /\ \A e \in Range(result.all_urls) :
         e.source = "rss" =>
           /\ e.url_type = "article"
           /\ e.url \in Range(rss_in)
           /\ e.url \notin {result.all_urls[i].url :
                               i \in {k \in 1..Len(result.all_urls) :
                                        result.all_urls[k].source = "sitemap"}}
           /\ spc # "done" => e \in Range(result.articles)
    /\ spc = "rss" =>
         \A i \in 1..(sidx - 1) :
           \/ rss_in[i] \in Range(sitemap_in)
           \/ SampledURL(rss_in[i], "article", "rss") \in Range(result.all_urls)

\* a returned result with a sitemap entry followed by an RSS entry whose URL
\* matches a skip pattern and a product pattern, kept as an article
SitemapBeforeRssWitness ==
    /\ spc = "done"
    /\ \E e \in Range(result.all_urls) : e.source = "sitemap"
    /\ \E e \in Range(result.articles) :
         /\ e.source = "rss"
         /\ AnyPatternMatches(SKIP_PATTERNS, e.url)
         /\ AnyPatternMatches(PRODUCT_PATTERNS, e.url)

\* the entries of all_urls that the sitemap and the feed gave
BeforeCrawl == SelectSeq(result.all_urls, LAMBDA e : e.source # "crawl")
BeforeCrawlOfType(t) == SelectSeq(BeforeCrawl, LAMBDA e : e.url_type = t)

\* C18: sample() crawls the homepage (one fetch, same-domain links only) iff,
\* after the sitemap and RSS URLs, fewer than max_per_type articles or fewer
\* than max_per_type products are collected; with both quotas met no crawl
\* fetch is issued; crawled URLs are added only after all sitemap and RSS URLs.
CrawlIffQuotaUnmet ==
    /\ spc \in {"sitemap", "rss", "crawl_check"} =>
         crawl_fetches = 0 /\ BeforeCrawl = result.all_urls
    /\ spc \in {"crawl", "trim", "done"} =>
         crawl_fetches = IF \/ Len(BeforeCrawlOfType("article")) < max_per_type
                            \/ Len(BeforeCrawlOfType("product")) < max_per_type
                         THEN 1 ELSE 0
    /\ SourcesInOrder
    /\ \A e \in Range(result.all_urls) :
         e.source = "crawl" =>
           /\ crawl_fetches = 1
           /\ homepage.status = 200
           /\ \E l \in Range(homepage.links) :
                /\ l.netloc = BaseDomain
                /\ NormalizeCrawled(l.frags) = e.url

\* a returned result to which the crawl added a URL after those of the sitemap
CrawlWitness ==
    /\ spc = "done"
    /\ crawl_fetches = 1
    /\ \E l \in Range(homepage.links) : l.netloc # BaseDomain
    /\ \E e \in Range(result.all_urls) : e.source = "sitemap"
    /\ \E e \in Range(result.all_urls) : e.source = "crawl"

NoUrlTwice(s) == \A i, j \in 1..Len(s) : s[i].url = s[j].url => i = j
UrlsOf(s) == {s[i].url : i \in 1..Len(s)}

\* C20: at every point of a sample() run no URL string occurs twice in
\* all_urls, nor in more than one of articles, products, categories, pages.
SampledUrlsUnique ==
    /\ NoUrlTwice(result.all_urls)
    /\ NoUrlTwice(result.articles \o result.products \o result.categories \o result.pages)

\* a returned result holding once a URL that the sitemap, the feed and a link
\* of the crawled homepage all supplied
SampledUrlsUniqueWitness ==
    /\ spc = "done"
    /\ crawl_fetches = 1 /\ homepage.status = 200
    /\ \E u \in Range(sitemap_in) \cap Range(rss_in) :
         /\ \E l \in Range(homepage.links) :
              l.netloc = BaseDomain /\ NormalizeCrawled(l.frags) = u
         /\ Cardinality({i \in 1..Len(result.all_urls) : result.all_urls[i].url = u}) = 1
         /\ u \in UrlsOf(result.articles)

----------------------------------------------------------------------------
\* the entries of all_urls of one type, in the order they were discovered
DiscoveredOfType(t) == SelectSeq(result.all_urls, LAMBDA e : e.url_type = t)

\* C21: every SampledURL has priority 0.5, so the sort in sample() reorders
\* nothing: each returned type list is the first max_per_type URLs of its type
\* in discovery order (sitemap, then RSS, then crawl), and truncation drops
\* the latest-discovered URLs.
TrimKeepsFirstDiscovered ==
    /\ \A e \in Range(result.all_urls) : e.priority = DefaultPriority
    /\ SourcesInOrder
    /\ spc = "done" =>
         /\ result.articles = Take(DiscoveredOfType("article"), max_per_type)
         /\ result.products = Take(DiscoveredOfType("product"), max_per_type)
         /\ result.categories = Take(DiscoveredOfType("category"), max_per_type)
         /\ result.pages = Take(DiscoveredOfType("page"), max_per_type)

\* a returned result whose article list kept the sitemap's article and lost
\* the one the crawl discovered after it
TrimKeepsFirstWitness ==
    /\ spc = "done"
    /\ max_per_type = 1
    /\ Len(DiscoveredOfType("article")) = 2
    /\ DiscoveredOfType("article")[2].source = "crawl"
    /\ result.articles = <<DiscoveredOfType("article")[1]>>
    /\ result.articles[1].source = "sitemap"

----------------------------------------------------------------------------
(* SitemapDiscovery.discover: the work queue *)
(* Sites with indexes that list themselves, each other, a long chain of    *)
(* further indexes, and failing answers whose body carries entries.        *)

TinyMaxSitemaps == 3

ChainPaths ==
    <<"/chain-01.xml", "/chain-02.xml", "/chain-03.xml", "/chain-04.xml",
      "/chain-05.xml", "/chain-06.xml", "/chain-07.xml", "/chain-08.xml",
      "/chain-09.xml", "/chain-10.xml", "/chain-11.xml", "/chain-12.xml">>

QueueSitemapUrls == SitemapUrls \cup Range(ChainPaths)

\* a failing answer with a body: entries that must not be used
FaultyDoc(kind, children, path) ==
    [kind |-> kind, sitemaps |-> children, urls |-> <<[loc |-> <<path, 0>>]>>]

\* each index of the chain lists the next one
ChainDoc(p) ==
    LET k == CHOOSE i \in 1..Len(ChainPaths) : ChainPaths[i] = p
    IN  IF k < Len(ChainPaths) THEN IndexDoc(<<ChainPaths[k + 1]>>)
        ELSE Urlset(p, 1)

QueueSites ==
    { [p \in QueueSitemapUrls |->
         CASE p = "/sitemap.xml" -> a
           [] p = IndexPath      -> b
           [] p = ChildA         -> c
           [] p = ChildB         -> d
           [] p \in Range(ChainPaths) -> ChainDoc(p)
           [] OTHER              -> FailDoc("status_404")] :
      a \in {FaultyDoc("other_root", <<>>, "/sitemap.xml"), Urlset("/sitemap.xml", 1),
             IndexDoc(<<"/sitemap.xml">>)},
      b \in {FailDoc("no_response"), FaultyDoc("bad_xml", <<ChildA>>, IndexPath),
             IndexDoc(<<ChildA, ChildB>>), IndexDoc(<<ChildB, ChildA, ChildB>>),
             IndexDoc(<<ChainPaths[1]>>)},
      c \in {FaultyDoc("other_root", <<>>, ChildA), IndexDoc(<<ChildB>>),
             IndexDoc(<<IndexPath, ChildB>>), Urlset(ChildA, MaxUrlsPerSet)},
      d \in {FaultyDoc("status_404", <<ChildA>>, ChildB), IndexDoc(<<ChildA>>),
             Urlset(ChildB, MaxUrlsPerSet)} }

QueueRobots ==
    RobotsResponses
    \cup { [status |-> 200, lines |-> <<[key |-> "sitemap", value |-> ChainPaths[1]],
                                        [key |-> "sitemap", value |-> IndexPath],
                                        [key |-> "sitemap", value |-> ChainPaths[1]]>>] }

InitSitemapQueue ==
    /\ max_urls = SmallMaxUrls
    /\ max_sitemaps \in {TinyMaxSitemaps, DefaultMaxSitemaps}
    /\ robots_txt \in QueueRobots
    /\ site_docs \in QueueSites
    /\ SitemapStart
    /\ SamplerIdle /\ LogInit /\ SchemaIdle /\ SeoIdle /\ ScoreIdle /\ ArticleIdle
    /\ LaterIdle

\* SpecSitemapQueue: one discover() call on every site of QueueSites
SpecSitemapQueue == InitSitemapQueue /\ [][NextSitemap]_vars

\* the step DiscoverStart, told by what it does to the position in discover()
DiscoverStarts == dpc = "start" /\ dpc' = "loop"

\* the same, where a discover() call that can take a step takes it
SpecSitemapLive ==
    /\ SpecSitemapQueue
    /\ WF_dpc(DiscoverStarts) /\ WF_vars(DiscoverStep) /\ WF_vars(DiscoverReturn)

\* the values of the Sitemap: lines of robots.txt in file order, then the
\* conventional paths, in list order, that are not among them
InitialCandidates ==
    LET hints == IF robots_txt.status = 200
                 THEN [i \in 1..Len(SelectSeq(robots_txt.lines,
                                              LAMBDA l : l.key = "sitemap" /\ l.value # "")) |->
                         SelectSeq(robots_txt.lines,
                                   LAMBDA l : l.key = "sitemap" /\ l.value # "")[i].value]
                 ELSE <<>>
    IN  hints \o SelectSeq(COMMON_PATHS, LAMBDA p : p \notin Range(hints))

ParsedOk(u) == site_docs[u].kind \in {"sitemapindex", "urlset"}

\* the children that the i-th fetch put on the queue
ChildrenEnqueuedAt(i) ==
    IF site_docs[fetched[i]].kind = "sitemapindex"
    THEN SelectSeq(site_docs[fetched[i]].sitemaps,
                   LAMBDA c : c \notin {fetched[j] : j \in 1..i})
    ELSE <<>>

\* everything put on the queue up to and including the n-th fetch, in order
RECURSIVE EnqueueLog(_)
EnqueueLog(n) ==
    IF n = 0 THEN InitialCandidates
    ELSE EnqueueLog(n - 1) \o ChildrenEnqueuedAt(n)

\* C22: within one discover() call the queue is first-in first-out (robots.txt
\* entries in file order, then the conventional paths in list order, then
\* children in the order their index was fetched): what has been taken off is
\* the front of everything enqueued, the fetches are its first occurrences in
\* order, and no sitemap URL is fetched twice.
SitemapQueueFifoFetchOnce ==
    dpc # "start" =>
      LET log == EnqueueLog(Len(fetched))
          taken == Len(log) - Len(sitemap_queue)
      IN  /\ taken >= 0
          /\ sitemap_queue = SubSeq(log, taken + 1, Len(log))
          /\ fetched = AppendMissing(<<>>, SubSeq(log, 1, taken))
          /\ \A i, j \in 1..Len(fetched) : fetched[i] = fetched[j] => i = j
          /\ processed_sitemaps = Range(fetched)

\* a finished discovery that fetched once a child listed by robots.txt and
\* twice by the index, and an index listed by robots.txt and the common paths
SitemapQueueWitness ==
    /\ dpc = "done"
    /\ robots_txt.status = 200
    /\ \E i \in 1..Len(robots_txt.lines) : robots_txt.lines[i].value = ChildB
    /\ site_docs[IndexPath] = IndexDoc(<<ChildB, ChildA, ChildB>>)
    /\ IndexPath \in Range(fetched) /\ ChildB \in Range(fetched) /\ ChildA \in Range(fetched)
    /\ fetched[1] = ChildB

\* C23: discover() terminates for every site, indexes that list themselves,
\* each other or an ever longer chain of new indexes included, and never
\* issues more than max_sitemaps sitemap fetches.
DiscoverTerminatesWithinCap ==
    /\ [](Len(fetched) <= max_sitemaps)
    /\ <>(dpc = "done")

\* a discovery that the cap stopped while following the chain of indexes
DiscoverCapWitness ==
    /\ dpc = "done"
    /\ max_sitemaps = DefaultMaxSitemaps
    /\ Len(fetched) = max_sitemaps
    /\ sitemap_queue # <<>>
    /\ \E k \in 2..Len(ChainPaths) : ChainPaths[k] \in Range(fetched)

\* C24: a candidate whose fetch fails (no response, non-200 status, malformed
\* XML, another root element) is skipped: it is not added to sitemap_urls, adds
\* no page URL and enqueues no child; found is true on return iff a candidate
\* was fetched and parsed, and the warning is present iff found is false.
FailedSitemapSkipped ==
    /\ sm_result.sitemap_urls = SelectSeq(fetched, ParsedOk)
    /\ \A e \in Range(sm_result.urls) :
         \E u \in Range(fetched) : site_docs[u].kind = "urlset" /\ e \in Range(site_docs[u].urls)
    /\ \A c \in Range(sitemap_queue) :
         \/ c \in Range(InitialCandidates)
         \/ \E u \in Range(fetched) :
              site_docs[u].kind = "sitemapindex" /\ c \in Range(site_docs[u].sitemaps)
    /\ sm_result.found <=> (\E u \in Range(fetched) : ParsedOk(u))
    /\ dpc = "done" =>
         ("No sitemap found at common locations" \in Range(sm_result.warnings))
           <=> ~sm_result.found
    /\ dpc # "done" => sm_result.warnings = <<>>

\* a finished discovery that skipped a 404 answer and a malformed document,
\* both with entries in their bodies, and went on to parse a later candidate
FailedSitemapWitness ==
    /\ dpc = "done"
    /\ site_docs[ChildB].kind = "status_404" /\ site_docs[ChildB].sitemaps # <<>>
    /\ site_docs[IndexPath].kind = "bad_xml"
    /\ ChildB \in Range(fetched) /\ IndexPath \in Range(fetched)
    /\ sm_result.sitemap_urls = <<"/sitemap.xml">>
    /\ sm_result.found /\ sm_result.warnings = <<>>

----------------------------------------------------------------------------
InitRedirects ==
    /\ tpc = "start" /\ opc = "idle"
    /\ t_current = "none"
    /\ t_result = EmptyTechnicalResult
    /\ o_result = EmptyOnPageResult
    /\ SamplerIdle /\ LogInit /\ SitemapIdle /\ SchemaIdle /\ ScoreIdle /\ ArticleIdle
    /\ LaterIdle

NextRedirects == AnalyzeFetch \/ AnalyzeFollowRedirect \/ AnalyzeChecksPlainPage

\* SpecSeoLive: one TechnicalSEO.analyze() call on every redirect graph, where
\* a call that can take a step takes it
SpecSeoLive ==
    /\ InitRedirects /\ [][NextRedirects]_vars
    /\ WF_vars(AnalyzeFetch) /\ WF_vars(AnalyzeFollowRedirect)
    /\ WF_vars(AnalyzeChecksPlainPage)

\* C25: the manual redirect following of TechnicalSEO.analyze terminates for
\* every redirect graph (loops, a redirect without Location, a failing target):
\* at most 10 hops are followed, and redirect_count = len(redirect_chain) <= 10
\* in every returned result.
RedirectFollowingTerminates ==
    /\ [](Len(t_result.redirect_chain) <= MaxRedirects)
    /\ [](tpc = "done" =>
            /\ t_result.redirect_count = Len(t_result.redirect_chain)
            /\ t_result.redirect_count <= 10)
    /\ (tpc = "start") ~> (tpc = "done")

\* a returned result of a page whose redirects never end: the loop stopped
\* at the tenth hop with a redirect still in hand
RedirectCapWitness ==
    /\ tpc = "done"
    /\ t_current = "redirect"
    /\ t_result.redirect_count = 10
    /\ Len(t_result.redirect_chain) = 10

----------------------------------------------------------------------------
(* ArticleExtractor.extract_single: the reading time *)

MaxWordCount == 450

InitReadingTime ==
    /\ EXTRUCT_AVAILABLE \in BOOLEAN
    /\ a_response = [kind |-> "response", status |-> 200]
    /\ a_page \in { ArticlePage(<<>>, NoTag, <<HeadingC>>, c, x) :
                      c \in {[found |-> FALSE, words |-> 0]}
                            \cup {[found |-> TRUE, words |-> w] : w \in 0..MaxWordCount},
                      x \in PageExtras }
    /\ ArticleStart
    /\ SamplerIdle /\ LogInit /\ SitemapIdle /\ SchemaIdle /\ SeoIdle /\ ScoreIdle
    /\ LaterIdle

\* SpecReadingTime: extract_single on pages of every length up to MaxWordCount
SpecReadingTime == InitReadingTime /\ [][NextArticle]_vars

BuiltFrom200 == a_pc = "done" /\ a_ret = "article" /\ a_article.status_code = 200

\* m = max(1, w // 200), written without the division
IsReadingTimeOf(m, w) ==
    IF w < 200 THEN m = 1 ELSE 200 * m <= w /\ w < 200 * (m + 1)

\* C26 as stated: every article record built from a 200 response has
\* reading_time_minutes = max(1, word_count // 200), for every word_count >= 0.
ReadingTimeForEveryWordCount ==
    BuiltFrom200 => IsReadingTimeOf(a_article.reading_time_minutes, a_article.word_count)

\* C26, amended: every article record built from a 200 response with
\* word_count > 0 has reading_time_minutes = max(1, word_count // 200); with
\* word_count = 0 reading_time_minutes is 0.
ReadingTimeWhenWordsCounted ==
    BuiltFrom200 =>
      IF a_article.word_count > 0
      THEN IsReadingTimeOf(a_article.reading_time_minutes, a_article.word_count)
      ELSE a_article.reading_time_minutes = 0

\* a record of a 399-word page: one minute
ReadingTimeWitness ==
    /\ BuiltFrom200
    /\ a_article.word_count = 399
    /\ a_article.reading_time_minutes = 1

----------------------------------------------------------------------------
\* an Article-family block with headline, datePublished and author
CompleteArticleBlock(b) ==
    /\ b.is_dict /\ b.type \in VALIDATOR_ARTICLE_TYPES
    /\ {"headline", "datePublished", "author"} \subseteq b.present

\* a Product block with name and offers carrying price, priceCurrency, availability
CompleteProductBlock(b) ==
    /\ b.is_dict /\ b.type = "Product"
    /\ {"name", "offers"} \subseteq b.present
    /\ {"price", "priceCurrency", "availability"} \subseteq b.offers

\* C27: after validate() has processed the JSON-LD blocks of a page,
\* article_schema_valid is true iff the page has at least one Article-family
\* block with all required fields, whatever the order of the blocks; likewise
\* product_schema_valid for Product blocks with name and complete offers.
SchemaValidIffSomeCompleteBlock ==
    vpc = "done" =>
      /\ v_result.article_schema_valid
           <=> \E i \in 1..Len(schemas_in) : CompleteArticleBlock(schemas_in[i])
      /\ v_result.product_schema_valid
           <=> \E i \in 1..Len(schemas_in) : CompleteProductBlock(schemas_in[i])

----------------------------------------------------------------------------
(* URLSampler.sample: long sitemap lists against the caps of the loops *)

CapMaxPerType == 1
CapMaxRssUrls == 2

U_widget == <<"widget-p-123">>

\* a sitemap in document order; the lists given to sample() are its sub-lists
LongSitemap ==
    << <<"/p/">>, U_skipped, <<"/c/">>, <<"/shop/">>, <<"/category/">>,
       U_widget, U_article >>

RECURSIVE MaskedFrom(_, _, _)
MaskedFrom(s, mask, i) ==
    IF i > Len(s) THEN <<>>
    ELSE (IF mask[i] THEN <<s[i]>> ELSE <<>>) \o MaskedFrom(s, mask, i + 1)

SubLists(s) == { MaskedFrom(s, mask, 1) : mask \in [1..Len(s) -> BOOLEAN] }

CapRssPool == {U_widget, U_skipped, U_article}
CapLinkPool ==
    { [href_kind |-> "http", netloc |-> BaseDomain, frags |-> U_widget],
      [href_kind |-> "http", netloc |-> BaseDomain, frags |-> <<"/page/">>] }

InitCaps ==
    /\ max_per_type \in 0..CapMaxPerType
    /\ sitemap_in \in SubLists(LongSitemap)
    /\ rss_in \in SeqsUpTo(CapRssPool, CapMaxRssUrls)
    /\ homepage \in { [status |-> 0, links |-> <<>>] }
                    \cup { [status |-> 200, links |-> <<l>>] : l \in CapLinkPool }
    /\ SamplerStart
    /\ LogInit /\ SitemapIdle /\ SchemaIdle /\ SeoIdle /\ ScoreIdle /\ ArticleIdle
    /\ LaterIdle

\* SpecCaps: one run of URLSampler.sample on sitemap lists long enough to
\* reach the 5 * max_per_type cap of the sitemap loop
SpecCaps == InitCaps /\ [][SamplerNext]_vars

\* the distinct classified URLs among the first k sitemap URLs
ClassifiedAmongFirst(k) ==
    { sitemap_in[j] : j \in {m \in 1..k : classify_url(sitemap_in[m]) # "other"} }

\* the sitemap URLs the sitemap loop hands to _classify_and_add: those it
\* reaches while all_urls holds fewer than 5 * max_per_type entries
SitemapPassProcessed ==
    { sitemap_in[k] : k \in {i \in 1..Len(sitemap_in) :
                               Cardinality(ClassifiedAmongFirst(i - 1)) < 5 * max_per_type} }

SampledEntries(s, u) == SelectSeq(s, LAMBDA e : e.url = u)

\* a processed URL is never re-added or reclassified by a later step
ProcessedUrlsFrozen ==
    /\ seen_urls \subseteq seen_urls'
    /\ \A u \in seen_urls : SampledEntries(result'.all_urls, u) = SampledEntries(result.all_urls, u)

\* after the sitemap loop, each URL it processed has its one sitemap entry of
\* the pattern-based type, or none when the patterns say other
SitemapEntriesKept ==
    spc # "sitemap" =>
      /\ SitemapPassProcessed \subseteq seen_urls
      /\ \A u \in SitemapPassProcessed :
           SampledEntries(result.all_urls, u) =
             IF classify_url(u) = "other" THEN <<>>
             ELSE <<SampledURL(u, classify_url(u), "sitemap")>>

\* C28 as stated: every URL present in both the sitemap and the RSS feed is
\* recorded, if at all, with source 'sitemap' and its pattern-based type, and
\* one that the patterns classify as other is absent from the result.
FirstSeenWinsForEveryCommonUrl ==
    spc # "sitemap" =>
      \A u \in Range(sitemap_in) \cap Range(rss_in) :
        \A e \in Range(result.all_urls) :
          e.url = u => e = SampledURL(u, classify_url(u), "sitemap")

\* C28 (amended): once a URL has been processed it is never re-added or
\* reclassified; a URL that the sitemap loop processed keeps, whatever the RSS
\* feed and the crawl offer, its single entry with source 'sitemap' and its
\* pattern-based type, or stays absent when the patterns classify it as other.
FirstSeenWins ==
    [][ProcessedUrlsFrozen /\ SitemapEntriesKept']_vars

\* a returned result for a sitemap and a feed that share a product URL, kept
\* as a sitemap product, and a skipped URL, absent although the feed had it
FirstSeenWinsWitness ==
    /\ spc = "done"
    /\ Len(result.articles) < max_per_type
    /\ {U_widget, U_skipped} \subseteq SitemapPassProcessed \cap Range(rss_in)
    /\ SampledURL(U_widget, "product", "sitemap") \in Range(result.products)
    /\ U_skipped \notin UrlsOf(result.all_urls)

----------------------------------------------------------------------------
EntriesFrom(source) == SelectSeq(result.all_urls, LAMBDA e : e.source = source)

ArticlesAmongFirst(i) ==
    Cardinality({k \in 1..i : result.all_urls[k].url_type = "article"})

MinOf(a, b) == IF a < b THEN a ELSE b

\* all_urls is never truncated: a step only appends to it
AllUrlsOnlyGrows ==
    /\ Len(result'.all_urls) >= Len(result.all_urls)
    /\ SubSeq(result'.all_urls, 1, Len(result.all_urls)) = result.all_urls

TypedListsMatch ==
    /\ \A e \in Range(result.articles)   : e.url_type = "article"  /\ e \in Range(result.all_urls)
    /\ \A e \in Range(result.products)   : e.url_type = "product"  /\ e \in Range(result.all_urls)
    /\ \A e \in Range(result.categories) : e.url_type = "category" /\ e \in Range(result.all_urls)
    /\ \A e \in Range(result.pages)      : e.url_type = "page"     /\ e \in Range(result.all_urls)

CapsStopTheLoops ==
    /\ \A i \in 1..Len(result.all_urls) :
         /\ result.all_urls[i].source = "sitemap" => i <= 5 * max_per_type
         /\ result.all_urls[i].source = "rss" => ArticlesAmongFirst(i) <= max_per_type
    /\ spc # "sitemap" =>
         Len(EntriesFrom("sitemap")) =
           MinOf(5 * max_per_type, Cardinality(ClassifiedAmongFirst(Len(sitemap_in))))
    /\ spc \notin {"sitemap", "rss"} =>
         \/ ArticlesAmongFirst(Len(BeforeCrawl)) >= max_per_type
         \/ Range(rss_in) \subseteq seen_urls

\* C30: sample() stops consuming sitemap URLs as soon as all_urls holds
\* 5 * max_per_type entries and RSS URLs as soon as articles holds max_per_type
\* entries; all_urls is never truncated; every entry of articles, products,
\* categories and pages has the matching url_type and occurs in all_urls, so
\* to_dict's total_urls is at least the sum of the four lengths.
SamplerCapsAndTotals ==
    [][ /\ AllUrlsOnlyGrows
        /\ CapsStopTheLoops'
        /\ TypedListsMatch'
        /\ to_dict_total_urls(result') >=
             Len(result'.articles) + Len(result'.products)
               + Len(result'.categories) + Len(result'.pages) ]_vars

\* a returned result for which the sitemap loop stopped at five entries with
\* a classified URL left over, the RSS loop stopped with a feed URL left
\* over, and the trim made the typed lists shorter than all_urls
SamplerCapsWitness ==
    /\ spc = "done"
    /\ max_per_type = 1
    /\ Len(EntriesFrom("sitemap")) = 5
    /\ Cardinality(ClassifiedAmongFirst(Len(sitemap_in))) > 5
    /\ Len(EntriesFrom("rss")) = 1
    /\ \E u \in Range(rss_in) : u \notin seen_urls
    /\ to_dict_total_urls(result) >
         Len(result.articles) + Len(result.products)
           + Len(result.categories) + Len(result.pages)

----------------------------------------------------------------------------
\* the number of records of s that satisfy Test
CountWhere(s, Test(_)) == Cardinality({i \in 1..Len(s) : Test(s[i])})

HasSchema(rec) == rec.has_schema
IsIndexable(rec) == rec.indexable
IsThin(rec) == rec.word_count < 300
LacksMeta(rec) == rec.meta_description = <<>>
HasPrice(rec) == rec.price # 0
HasAvailability(rec) == rec.availability # ""

Mentions(msgs, text) == \E i \in 1..Len(msgs) : msgs[i].text = text

ArticleCountersMatch ==
    /\ b_result.with_schema = CountWhere(b_result.articles, HasSchema)
    /\ b_result.indexable_count = CountWhere(b_result.articles, IsIndexable)
    /\ b_result.thin_content_count = CountWhere(b_result.articles, IsThin)
    /\ b_result.missing_meta_count = CountWhere(b_result.articles, LacksMeta)
    /\ \A i \in 1..Len(b_result.articles) :
         b_result.articles[i].status_code # 200 =>
           /\ IsThin(b_result.articles[i]) /\ LacksMeta(b_result.articles[i])
           /\ ~Mentions(b_result.articles[i].warnings, "Thin content")
           /\ ~Mentions(b_result.articles[i].issues, "Missing meta description")
    /\ b_pc = "done" =>
         /\ b_result.total_found = Len(b_result.articles)
         /\ b_result.with_schema <= b_result.total_found
         /\ b_result.indexable_count <= b_result.total_found
         /\ b_result.thin_content_count <= b_result.total_found
         /\ b_result.missing_meta_count <= b_result.total_found

ProductCountersMatch ==
    /\ b_result.with_schema = CountWhere(b_result.products, HasSchema)
    /\ b_result.with_price = CountWhere(b_result.products, HasPrice)
    /\ b_result.with_availability = CountWhere(b_result.products, HasAvailability)
    /\ b_result.indexable_count = CountWhere(b_result.products, IsIndexable)
    /\ b_pc = "done" =>
         /\ b_result.total_found = Len(b_result.products)
         /\ b_result.with_schema <= b_result.total_found
         /\ b_result.with_price <= b_result.total_found
         /\ b_result.with_availability <= b_result.total_found
         /\ b_result.indexable_count <= b_result.total_found

\* C29: in every ArticleExtractionResult total_found = len(articles), and
\* with_schema, indexable_count, thin_content_count and missing_meta_count are
\* the numbers of records with has_schema, indexable, word_count < 300 and
\* empty meta_description (each at most total_found); the record of a non-200
\* response counts as thin and as missing meta although it carries no such
\* warning or issue.  The counters of ProductExtractionResult match likewise.
ExtractionCountersMatch ==
    IF b_kind = "article" THEN ArticleCountersMatch ELSE ProductCountersMatch

\* a returned article batch holding a non-200 record, a thin page and a page
\* of exactly 300 words with schema and meta description
ExtractionCountersWitness ==
    /\ b_pc = "done" /\ b_kind = "article"
    /\ b_result.total_found = 3
    /\ b_result.thin_content_count = 2
    /\ b_result.missing_meta_count = 2
    /\ b_result.with_schema = 1
    /\ \E i \in 1..3 : b_result.articles[i].status_code = 301
    /\ \E i \in 1..3 : b_result.articles[i].word_count = 300

====
